---- MODULE Spec2Model ----
(***************************************************************************)
(* A model of src/ABENICS.py: the gear parameters (ABENICS.__init__), the  *)
(* gear profile layout (ABENICS.draw_gear, ABENICS.draw_tooth), the        *)
(* involute generator (get_involutePoints, involutePoint), the validation  *)
(* handler (GearCommandValidateInputsHandler.notify) and the execute       *)
(* handler (GearCommandExecuteHandler.notify) with its engrave loop.       *)
(*                                                                         *)
(* Numbers.  Python floats are modelled as exact rationals [n, d] (d > 0,  *)
(* lowest terms).  Lengths are in the host's unit (cm), angles are in      *)
(* units of pi (so 2*math.pi is the rational 2).  math.cos is a table of   *)
(* four-digit values for the three pressure angles of the dialog.  The     *)
(* points of a tooth flank are kept as distance and angle, the angle as an *)
(* exact sum of multiples of pi, radians and involute angles.              *)
(*                                                                         *)
(* The CAD host is the environment: every call into it either succeeds     *)
(* with the effect its API documents, or raises.                           *)
(***************************************************************************)
EXTENDS Integers, Sequences, FiniteSets, TLC

VARIABLES
    standard,     \* _standard.selectedItem.name
    args,         \* the arguments ABENICS.__init__ is called with
    pc,           \* position in GearCommandExecuteHandler.notify
    i,            \* the engrave loop's index
    abenics,      \* the ABENICS object's attributes
    gpc,          \* position in ABENICS.draw_gear
    axis,         \* draw_gear's axis_angle
    ti,           \* draw_gear's tooth loop index
    toothCalls,   \* the draw_tooth invocations of the current draw_gear
    calls,        \* every call the handler issued, in order
    timeline,     \* the host's timeline: the features created so far
    groups,       \* the host's timeline groups
    shBody,       \* the body of sh_comp
    mpBody,       \* the body of mp_comp
    exc,          \* the exception that reached the handler's except clause
    outerGroup,   \* outcome of the try block of lines 764-770
    report,       \* what _ui.messageBox showed
    descs,        \* the component descriptions
    attribs,      \* the design attributes of group _app_name
    inv,          \* the activation of get_involutePoints
    tooth,        \* the activation of ABENICS.draw_tooth
    val,          \* the activation of GearCommandValidateInputsHandler.notify
    fan,          \* draw_gear's sketch, root fan and the line it returns
    ret,          \* the handler's sk, ax_line
    dialog        \* the values of the dialog's inputs

vars == <<standard, args, pc, i, abenics, gpc, axis, ti, toothCalls, calls,
          timeline, groups, shBody, mpBody, exc, outerGroup, report, descs,
          attribs, inv, tooth, val, fan, ret, dialog>>

fnVars == <<inv, tooth, val>>

extVars == <<fan, ret, dialog>>

handlerVars == <<standard, pc, i, calls, timeline, groups, shBody, mpBody,
                 exc, outerGroup, report, descs, attribs>>

----------------------------------------------------------------------------
(* Bounds of the parameter sets                                            *)

MaxTeeth == 9
MaxRatioNum == 3
MaxRatioDen == 2
MaxModuleQuarters == 5
MaxAxisHalves == 1

----------------------------------------------------------------------------
(* Rational arithmetic                                                     *)

Abs(x) == IF x < 0 THEN -x ELSE x

RECURSIVE GCD(_, _)
GCD(a, b) == IF b = 0 THEN a ELSE GCD(b, a % b)

Norm(n, d) ==
    LET s == IF d < 0 THEN -1 ELSE 1
        g == GCD(Abs(n), Abs(d))
    IN  [n |-> (s * n) \div g, d |-> (s * d) \div g]

RInt(k) == [n |-> k, d |-> 1]
\* the common factors are divided out before multiplying, so that the
\* intermediate integers stay small
RAdd(a, b) ==
    LET g == GCD(a.d, b.d)
    IN  Norm(a.n * (b.d \div g) + b.n * (a.d \div g), (a.d \div g) * b.d)
RNeg(a) == [n |-> -a.n, d |-> a.d]
RSub(a, b) == RAdd(a, RNeg(b))
RMul(a, b) ==
    LET g1 == GCD(Abs(a.n), b.d)
        g2 == GCD(Abs(b.n), a.d)
    IN  Norm((a.n \div g1) * (b.n \div g2), (a.d \div g2) * (b.d \div g1))
RDiv(a, b) == RMul(a, Norm(b.d, b.n))
RLt(a, b) ==
    LET g == GCD(a.d, b.d)
    IN  a.n * (b.d \div g) < b.n * (a.d \div g)
RAbs(a) == [n |-> Abs(a.n), d |-> a.d]

\* int(x): truncation toward zero
PyInt(a) == IF a.n >= 0 THEN a.n \div a.d ELSE -((-a.n) \div a.d)

\* range(n) as a set of indexes
PyRange(n) == 0 .. (n - 1)

\* math.cos of a pressure angle (units of pi): 14.5, 20 and 25 degrees
Cos(a) ==
    CASE a = Norm(29, 360) -> Norm(9681, 10000)
      [] a = Norm(1, 9)    -> Norm(9397, 10000)
      [] a = Norm(5, 36)   -> Norm(9063, 10000)

----------------------------------------------------------------------------
(* Points and angles of the tooth profile                                  *)
(*                                                                         *)
(* An angle is kept as the exact sum                                       *)
(*     a.pi * pi  +  a.rad  +  the sum of c * inv(q) for <<q, c>> in a.inv *)
(* of a rational multiple of pi, a rational number of radians and whole    *)
(* multiples of involute angles inv(q) = sqrt(1/q^2 - 1) - acos(q), q the  *)
(* ratio of the base radius to the distance from the centre.  A Point3D    *)
(* (x, y, 0) is kept as its distance r from the origin and its angle theta *)
(* from the x axis: x = r*cos(theta), y = r*sin(theta).                    *)

ZeroAngle == [pi |-> RInt(0), rad |-> RInt(0), inv |-> {}]

PiAngle(x) == [pi |-> x, rad |-> RInt(0), inv |-> {}]

RadAngle(x) == [pi |-> RInt(0), rad |-> x, inv |-> {}]

Coef(a, q) ==
    IF \E e \in a.inv : e[1] = q
    THEN (CHOOSE e \in a.inv : e[1] = q)[2]
    ELSE 0

AAdd(a, b) ==
    LET qs == {e[1] : e \in a.inv \cup b.inv}
    IN  [pi |-> RAdd(a.pi, b.pi),
         rad |-> RAdd(a.rad, b.rad),
         inv |-> {<<q, Coef(a, q) + Coef(b, q)>> :
                      q \in {x \in qs : Coef(a, x) + Coef(b, x) # 0}}]

ANeg(a) ==
    [pi |-> RNeg(a.pi), rad |-> RNeg(a.rad),
     inv |-> {<<e[1], -e[2]>> : e \in a.inv}]

ASub(a, b) == AAdd(a, ANeg(b))

\* a point of the sketch plane by its coordinates
XY(x, y) == [x |-> x, y |-> y]

\* Point3D.create(r*cos(theta), r*sin(theta), 0)
Point(r, theta) == [r |-> r, theta |-> theta]

\* what a function returns when it falls off its end
None == [none |-> TRUE]

\* math.sqrt(x*x + y*y) of a point
Distance(p) == RAbs(p.r)

\* rotate_points(points, angle) with center None: (x*cos - y*sin,
\* x*sin + y*cos) is the point at the same distance, angle added
rotate_point(p, angle) == Point(p.r, AAdd(p.theta, angle))

rotate_points(points, angle) ==
    [k \in 1 .. Len(points) |-> rotate_point(points[k], angle)]

----------------------------------------------------------------------------
(* ABENICS.__init__                                                        *)

NoObject == [none |-> TRUE]

\* the defaults of the constructor's signature
DefaultArgs ==
    [module |-> RInt(1), pressure_angle |-> Norm(20, 180),
     num_teeth_sh |-> 40, gear_ratio |-> RInt(2),
     thickness |-> RInt(4), hole_diameter |-> Norm(4, 10)]

num_teeth_pinion_rounded(num_teeth_sh, gear_ratio) ==
    PyInt(RAdd(RDiv(RInt(num_teeth_sh), gear_ratio), Norm(1, 2)))

num_teeth_pinion(num_teeth_sh, gear_ratio) ==
    PyInt(RDiv(RInt(num_teeth_sh), gear_ratio))

NewABENICS(a) ==
    LET sh_diameter == RMul(RMul(RInt(10), a.module), RInt(a.num_teeth_sh))
    IN  [module |-> a.module,
         pressure_angle |-> a.pressure_angle,
         gear_ratio |-> a.gear_ratio,
         num_teeth_sh |-> a.num_teeth_sh,
         sh_diameter |-> sh_diameter,
         pitch_angle |-> RDiv(RInt(2), RInt(a.num_teeth_sh)),
         d_pinion |-> RDiv(sh_diameter, a.gear_ratio),
         num_teeth_pinion |-> num_teeth_pinion(a.num_teeth_sh, a.gear_ratio),
         d_hole_pinion |-> a.hole_diameter,
         mp_thickness |-> a.thickness,
         backlash |-> Norm(1, 10)]

----------------------------------------------------------------------------
(* ABENICS.draw_gear and ABENICS.draw_tooth                                *)

\* dedendum = 1.25 * module, then *= 0.1 (mm -> cm)
Dedendum(obj) == RMul(RMul(Norm(125, 100), obj.module), Norm(1, 10))

root_dia(obj) == RSub(obj.sh_diameter, RMul(RInt(2), Dedendum(obj)))

tip_diameter(obj) ==
    RAdd(obj.sh_diameter, RMul(RMul(RInt(2), obj.module), Norm(1, 10)))

base_diameter(obj) == RMul(obj.sh_diameter, Cos(obj.pressure_angle))

\* the branch of lines 236-257
RootClosing(obj, root_diameter) ==
    IF RLt(base_diameter(obj), root_diameter) THEN "direct" ELSE "relief"

\* one invocation of draw_tooth, as far as the layout decides it
draw_tooth(obj, root_diameter, tip, angle) ==
    [root_diameter |-> root_diameter,
     tip_diameter |-> tip,
     angle |-> angle,
     closing |-> RootClosing(obj, root_diameter)]

\* range(int(0.5*self.num_teeth_sh))
ToothRange_AllTeeth(obj) == PyRange(obj.num_teeth_sh)

ToothRange(obj) == PyRange(PyInt(RMul(Norm(1, 2), RInt(obj.num_teeth_sh))))

ToothAngle_NoHalfPitch(obj, k, axis_angle) ==
    RAdd(RMul(obj.pitch_angle, RInt(k)), axis_angle)

\* angle = self.pitch_angle * i + 0.5*self.pitch_angle + axis_angle
ToothAngle(obj, k, axis_angle) ==
    RAdd(RAdd(RMul(obj.pitch_angle, RInt(k)),
              RMul(Norm(1, 2), obj.pitch_angle)),
         axis_angle)

\* lines 267-298: the dimensions, the root fan, its closing line, the
\* construction circle
RootFan(obj, sketch, axis_angle) ==
    LET arc_start == rotate_point(Point(RMul(Norm(1, 2), root_dia(obj)),
                                        ZeroAngle), PiAngle(axis_angle))
        arc_end == rotate_point(Point(RNeg(RMul(Norm(1, 2), root_dia(obj))),
                                      ZeroAngle), PiAngle(axis_angle))
    IN  [sketch |-> sketch,
         arc |-> [center |-> XY(RInt(0), RInt(0)), start |-> arc_start,
                  sweep |-> RInt(1)],
         l |-> [from |-> arc_start, to |-> arc_end],
         c |-> [center |-> XY(RInt(0), RInt(0)),
                radius |-> RMul(Norm(1, 2), tip_diameter(obj)),
                isConstruction |-> TRUE]]

DrawGearFan ==
    /\ gpc = "fan"
    /\ gpc' = "teeth"
    /\ ti' = 0
    /\ fan' = RootFan(abenics, fan.sketch, axis)
    /\ UNCHANGED <<args, abenics, axis, toothCalls>>
    /\ UNCHANGED handlerVars
    /\ UNCHANGED fnVars
    /\ UNCHANGED <<ret, dialog>>

\* return sketch, l
DrawGearResult_Arc(f) == [sk |-> f.sketch, ax_line |-> f.arc]

DrawGearResult(f) == [sk |-> f.sketch, ax_line |-> f.l]

\* lines 301-306: one iteration of the tooth loop
DrawTooth ==
    /\ gpc = "teeth"
    /\ ti \in ToothRange(abenics)
    /\ toothCalls' = Append(toothCalls,
           draw_tooth(abenics, root_dia(abenics), tip_diameter(abenics),
                      ToothAngle(abenics, ti, axis)))
    /\ ti' = ti + 1
    /\ UNCHANGED <<args, abenics, axis, gpc>>
    /\ UNCHANGED handlerVars
    /\ UNCHANGED fnVars
    /\ UNCHANGED extVars

\* lines 308-310: the loop is exhausted, draw_gear returns (sketch, l)
DrawGearReturn ==
    /\ gpc = "teeth"
    /\ ti \notin ToothRange(abenics)
    /\ gpc' = "returned"
    /\ UNCHANGED <<args, abenics, axis, ti, toothCalls>>
    /\ UNCHANGED handlerVars
    /\ UNCHANGED fnVars
    /\ UNCHANGED extVars

\* a sketch call of draw_gear or draw_tooth raises
DrawGearRaise ==
    /\ gpc \in {"fan", "teeth"}
    /\ gpc = "teeth" => ti \in ToothRange(abenics)
    /\ gpc' = "raised"
    /\ UNCHANGED <<args, abenics, axis, ti, toothCalls>>
    /\ UNCHANGED handlerVars
    /\ UNCHANGED fnVars
    /\ UNCHANGED extVars

----------------------------------------------------------------------------
(* The gear parameters and the profile layout for every argument:          *)
(* a caller that constructs the object and draws one gear.                 *)

TeethCounts == 4 .. MaxTeeth
GearRatios == {Norm(p, q) : p \in 1 .. MaxRatioNum, q \in 1 .. MaxRatioDen}
Modules == {Norm(k, 4) : k \in 1 .. MaxModuleQuarters}
PressureAngles == {Norm(29, 360), Norm(1, 9), Norm(5, 36)}
AxisAngles == {Norm(k, 2) : k \in 0 .. MaxAxisHalves}

ArgSets ==
    [module : Modules, pressure_angle : PressureAngles,
     num_teeth_sh : TeethCounts, gear_ratio : GearRatios,
     thickness : {RInt(4)}, hole_diameter : {Norm(4, 10)}]
    \cup {DefaultArgs}

\* the dialog as GearCommandCreatedHandler.notify fills it when the design
\* holds no attribute (lines 558-603); lengths in cm, angles in units of pi
DefaultDialog ==
    [pressureAngle |-> "20 deg", pressureAngleCustom |-> Norm(20, 180),
     module |-> RInt(1), backlash |-> RInt(0),
     rootFilletRad |-> Norm(15875, 100000), thickness |-> RInt(2),
     holeDiam |-> Norm(4, 10), num_teeth_sh |-> <<"4", "0">>,
     gear_ratio |-> RInt(2)]

\* the default dialog and the dialogs that differ from it in one input
Dialogs ==
    {DefaultDialog,
     [DefaultDialog EXCEPT !.pressureAngle = "25 deg"],
     [DefaultDialog EXCEPT !.pressureAngleCustom = Norm(25, 180)],
     [DefaultDialog EXCEPT !.module = RInt(2)],
     [DefaultDialog EXCEPT !.backlash = Norm(1, 20)],
     [DefaultDialog EXCEPT !.rootFilletRad = Norm(1, 10)],
     [DefaultDialog EXCEPT !.thickness = RInt(3)],
     [DefaultDialog EXCEPT !.holeDiam = Norm(1, 2)],
     [DefaultDialog EXCEPT !.num_teeth_sh = <<"1", "2">>],
     [DefaultDialog EXCEPT !.gear_ratio = RInt(3)]}

NoReport == [none |-> TRUE]

NoBody ==
    [exists |-> FALSE, shape |-> <<>>, rot |-> RInt(0),
     centre |-> XY(RInt(0), RInt(0))]

IdleHandler ==
    /\ i = 0
    /\ calls = <<>>
    /\ timeline = <<>>
    /\ groups = <<>>
    /\ shBody = NoBody
    /\ mpBody = NoBody
    /\ exc = "none"
    /\ outerGroup = "none"
    /\ report = NoReport
    /\ descs = [sh |-> "", mp |-> ""]
    /\ attribs = {}
    /\ fan = [none |-> TRUE]
    /\ ret = [none |-> TRUE]

\* no activation of the geometry functions or of the validation handler
NoFrame == [pc |-> "idle"]

IdleFns ==
    /\ inv = NoFrame
    /\ tooth = NoFrame
    /\ val = NoFrame

GearInit ==
    /\ dialog = DefaultDialog
    /\ standard = "Metric"
    /\ args \in ArgSets
    /\ pc = "gear_construct"
    /\ abenics = NoObject
    /\ gpc = "idle"
    /\ axis = RInt(0)
    /\ ti = 0
    /\ toothCalls = <<>>
    /\ IdleHandler
    /\ IdleFns

GearConstruct ==
    /\ pc = "gear_construct"
    /\ abenics' = NewABENICS(args)
    /\ pc' = "gear_draw"
    /\ UNCHANGED <<standard, args, i, gpc, axis, ti, toothCalls, calls,
                   timeline, groups, shBody, mpBody, exc, outerGroup, report,
                   descs, attribs>>
    /\ UNCHANGED fnVars
    /\ UNCHANGED extVars

GearCallDraw ==
    /\ pc = "gear_draw"
    /\ gpc = "idle"
    /\ \E a \in AxisAngles : axis' = a
    /\ gpc' = "fan"
    /\ ti' = 0
    /\ toothCalls' = <<>>
    /\ pc' = "gear_drawing"
    /\ fan' = [sketch |-> "sketch"]
    /\ UNCHANGED <<standard, args, i, abenics, calls, timeline, groups,
                   shBody, mpBody, exc, outerGroup, report, descs, attribs>>
    /\ UNCHANGED fnVars
    /\ UNCHANGED <<ret, dialog>>

GearNext ==
    \/ GearConstruct
    \/ GearCallDraw
    \/ DrawGearFan
    \/ DrawTooth
    \/ DrawGearReturn
    \/ DrawGearRaise

SpecGear == GearInit /\ [][GearNext]_vars

----------------------------------------------------------------------------
(* GearCommandExecuteHandler.notify                                        *)

num_steps == 36

NoStep == 0 - 1

\* delta_angle = (2*math.pi) / num_steps
delta_angle == RDiv(RInt(2), RInt(num_steps))

Call(op, step, ok, arg) == [op |-> op, step |-> step, ok |-> ok, arg |-> arg]

NoArg == [none |-> TRUE]

LoopPcs == {"engrave", "rotate_sh", "rotate_mp", "group"}

\* the calls into the host that are made directly from a handler position
HostPcs ==
    {"save_attribs", "make_sh_comp", "sh1_sketch", "sh1_revolve",
     "make_mp_comp", "mp_sketch", "mp_draw", "mp_extrude",
     "sh2_sketch", "sh2_revolve", "describe"} \cup LoopPcs

DrawPcs == {"sh1_draw", "sh2_draw"}

OpOf(p) ==
    CASE p = "engrave" -> "cut"
      [] p \in {"sh1_sketch", "mp_sketch", "sh2_sketch"} -> "sketch_add"
      [] p \in {"sh1_revolve", "sh2_revolve"} -> "revolve"
      [] p \in DrawPcs -> "draw_gear"
      [] p = "mp_draw" -> "draw_mp_sketch"
      [] p = "mp_extrude" -> "extrude"
      [] OTHER -> p

StepOf(p, k) == IF p \in LoopPcs THEN k ELSE NoStep

Feature(kind, step) == [kind |-> kind, step |-> step]

Goto(to) == pc' = to
Log(c) == calls' = Append(calls, c)
Create(kind, step) == timeline' = Append(timeline, Feature(kind, step))

gearVars == <<args, abenics, gpc, axis, ti, toothCalls>>

CreatedInputs_WithDiaPitch ==
    {"_standard", "_pressureAngle", "_pressureAngleCustom", "_diaPitch",
     "_module", "_backlash", "_rootFilletRad", "_thickness", "_holeDiam",
     "_num_teeth_sh", "_gear_ratio", "_errMessage"}

\* the globals that defineCommandDialog and GearCommandCreatedHandler.notify
\* assign a command input to (lines 75, 85, 617-653); every other global is
\* left at the None of lines 32-55
CreatedInputs ==
    {"_standard", "_pressureAngle", "_pressureAngleCustom", "_module",
     "_backlash", "_rootFilletRad", "_thickness", "_holeDiam",
     "_num_teeth_sh", "_gear_ratio", "_errMessage"}

\* the input a handler reads the pitch from (lines 701-704, 923-936)
PitchInput(std) == IF std = "English" THEN "_diaPitch" ELSE "_module"

\* lines 701-704: with 'Metric' diaPitch is read from _module; with
\* 'English' the read of _diaPitch.value raises when _diaPitch is None
ReadStandard ==
    /\ pc = "read_standard"
    /\ IF PitchInput(standard) \in CreatedInputs
         THEN Goto("save_attribs") /\ UNCHANGED exc
         ELSE Goto("except") /\ exc' = "read_standard"
    /\ UNCHANGED <<standard, i, calls, timeline, groups, shBody, mpBody,
                   outerGroup, report, descs, attribs>>
    /\ UNCHANGED gearVars
    /\ UNCHANGED fnVars
    /\ UNCHANGED extVars

\* str(x) of a float and float(s) of such a text; str gives the shortest
\* text that float reads back as the same number
Str(x) == [repr |-> x]

Float(s) == s.repr

\* an attribute is a pair <<name, value>>; attribs.add replaces the value of
\* an attribute of the same name
AttrAdd(a, e) == {x \in a : x[1] # e[1]} \cup {e}

\* attribs.itemByName(_app_name, name): the attribute or None
HasAttr(a, name) == \E x \in a : x[1] = name

AttrValue(a, name) == (CHOOSE x \in a : x[1] = name)[2]

\* the attribs.add calls of SaveValueAsAttributes in their order
\* (lines 676-689)
SaveWrites(std, d) ==
    <<<<"standard", std>>,
      <<"pressureAngle", d.pressureAngle>>,
      <<"pressureAngleCustom", Str(d.pressureAngleCustom)>>,
      <<"module", Str(d.module)>>,
      <<"rootFilletRad", Str(d.rootFilletRad)>>,
      <<"thickness", Str(d.thickness)>>,
      <<"holeDiam", Str(d.holeDiam)>>,
      <<"backlash", Str(d.backlash)>>,
      <<"backlash", Str(d.gear_ratio)>>,
      <<"gear_ratio", Str(d.gear_ratio)>>>>

RECURSIVE AddAll(_, _)
AddAll(a, writes) ==
    IF writes = <<>> THEN a
    ELSE AddAll(AttrAdd(a, Head(writes)), Tail(writes))

\* the values GearCommandCreatedHandler.notify gives the inputs of the next
\* dialog (lines 535-645): the attribute where there is one, the default
\* otherwise; the texts of the value inputs go through float
ReadBack(a) ==
    LET text(name, default) ==
            IF HasAttr(a, name) THEN AttrValue(a, name) ELSE default
        number(name, default) ==
            IF HasAttr(a, name) THEN Float(AttrValue(a, name)) ELSE default
    IN  [standard |-> text("standard", "Metric"),
         pressureAngle |-> text("pressureAngle", "20 deg"),
         pressureAngleCustom |-> number("pressureAngleCustom", Norm(20, 180)),
         module |-> number("module", RInt(1)),
         backlash |-> number("backlash", RInt(0)),
         rootFilletRad |-> number("rootFilletRad", Norm(15875, 100000)),
         thickness |-> number("thickness", RInt(2)),
         holeDiam |-> number("holeDiam", Norm(4, 10)),
         num_teeth_sh |-> text("num_teeth_sh", <<"4", "0">>),
         gear_ratio |-> number("gear_ratio", RInt(2))]

\* lines 707-709 and SaveValueAsAttributes
SaveAttributes ==
    /\ pc = "save_attribs"
    /\ attribs' = AddAll(attribs, SaveWrites(standard, dialog))
    /\ Log(Call("save_attribs", NoStep, TRUE, NoArg))
    /\ Goto("construct")
    /\ UNCHANGED <<standard, i, timeline, groups, shBody, mpBody, exc,
                   outerGroup, report, descs>>
    /\ UNCHANGED gearVars
    /\ UNCHANGED fnVars
    /\ UNCHANGED extVars

ConstructArgs_FromDialog(d) ==
    [DefaultArgs EXCEPT !.module = d.module, !.gear_ratio = d.gear_ratio,
                        !.pressure_angle = d.pressureAngleCustom,
                        !.hole_diameter = d.holeDiam]

\* line 731: abenics = ABENICS(design=des), every other argument defaulted;
\* the values read from the dialog in lines 701-726 are not passed
ConstructArgs(d) == DefaultArgs

Construct ==
    /\ pc = "construct"
    /\ abenics' = NewABENICS(ConstructArgs(dialog))
    /\ Goto("make_sh_comp")
    /\ UNCHANGED <<standard, i, calls, timeline, groups, shBody, mpBody, exc,
                   outerGroup, report, descs, attribs>>
    /\ UNCHANGED <<args, gpc, axis, ti, toothCalls>>
    /\ UNCHANGED fnVars
    /\ UNCHANGED extVars

\* line 733 / line 744: a new component by a new occurrence
MakeComp ==
    /\ pc \in {"make_sh_comp", "make_mp_comp"}
    /\ Log(Call(pc, NoStep, TRUE, NoArg))
    /\ Create("occurrence", NoStep)
    /\ Goto(IF pc = "make_sh_comp" THEN "sh1_sketch" ELSE "mp_sketch")
    /\ UNCHANGED <<standard, i, groups, shBody, mpBody, exc, outerGroup,
                   report, descs, attribs>>
    /\ UNCHANGED gearVars
    /\ UNCHANGED fnVars
    /\ UNCHANGED extVars

\* the variables that receive the new sketch: baseSketch, mp_sketch,
\* i_sketch
SketchName(p) ==
    CASE p = "sh1_sketch" -> "baseSketch"
      [] p = "mp_sketch" -> "mp_sketch"
      [] p = "sh2_sketch" -> "i_sketch"

\* lines 739, 747, 775: sketches.add(xyPlane)
AddSketch ==
    /\ pc \in {"sh1_sketch", "mp_sketch", "sh2_sketch"}
    /\ Log(Call("sketch_add", NoStep, TRUE,
                [sketch |-> SketchName(pc),
                 comp |-> IF pc = "mp_sketch" THEN "mp_comp" ELSE "sh_comp"]))
    /\ Create("sketch", NoStep)
    /\ Goto(CASE pc = "sh1_sketch" -> "sh1_draw"
              [] pc = "mp_sketch" -> "mp_draw"
              [] pc = "sh2_sketch" -> "sh2_draw")
    /\ UNCHANGED <<standard, i, groups, shBody, mpBody, exc, outerGroup,
                   report, descs, attribs>>
    /\ UNCHANGED gearVars
    /\ UNCHANGED fnVars
    /\ UNCHANGED extVars

\* the axis_angle of lines 740 and 776
DrawAxis(p) == IF p = "sh1_draw" THEN RInt(0) ELSE Norm(1, 2)

\* the sketch of lines 740 and 776: baseSketch, i_sketch
DrawSketch(p) == IF p = "sh1_draw" THEN "baseSketch" ELSE "i_sketch"

\* line 740 / line 776: the call of draw_gear
CallDrawGear ==
    /\ pc \in DrawPcs
    /\ gpc = "idle"
    /\ Log(Call("draw_gear", NoStep, TRUE,
                [sketch |-> DrawSketch(pc), axis_angle |-> DrawAxis(pc)]))
    /\ axis' = DrawAxis(pc)
    /\ fan' = [sketch |-> DrawSketch(pc)]
    /\ gpc' = "fan"
    /\ ti' = 0
    /\ toothCalls' = <<>>
    /\ UNCHANGED <<standard, pc, i, timeline, groups, shBody, mpBody, exc,
                   outerGroup, report, descs, attribs>>
    /\ UNCHANGED <<args, abenics>>
    /\ UNCHANGED fnVars
    /\ UNCHANGED <<ret, dialog>>

\* draw_gear returned (sk, ax_line)
ReturnDrawGear ==
    /\ pc \in DrawPcs
    /\ gpc = "returned"
    /\ gpc' = "idle"
    /\ Goto(IF pc = "sh1_draw" THEN "sh1_revolve" ELSE "sh2_revolve")
    /\ ret' = DrawGearResult(fan)
    /\ UNCHANGED <<standard, i, calls, timeline, groups, shBody, mpBody, exc,
                   outerGroup, report, descs, attribs>>
    /\ UNCHANGED <<args, abenics, axis, ti, toothCalls>>
    /\ UNCHANGED fnVars
    /\ UNCHANGED <<fan, dialog>>

\* an exception of draw_gear reaches the handler's except clause
PropagateDrawGear ==
    /\ pc \in DrawPcs
    /\ gpc = "raised"
    /\ gpc' = "idle"
    /\ exc' = pc
    /\ Goto("except")
    /\ UNCHANGED <<standard, i, calls, timeline, groups, shBody, mpBody,
                   outerGroup, report, descs, attribs>>
    /\ UNCHANGED <<args, abenics, axis, ti, toothCalls>>
    /\ UNCHANGED fnVars
    /\ UNCHANGED extVars

\* revolve_ballgear(sk, ax_line, operation, bodies): every profile of the
\* sketch, about the line draw_gear returned, through 2*math.pi
RevolveInput(p) ==
    [profiles |-> [sketch |-> ret.sk, which |-> "all"],
     axis |-> ret.ax_line, angle |-> RInt(2),
     operation |-> IF p = "sh1_revolve" THEN "NewBody" ELSE "Intersect",
     participants |-> IF p = "sh1_revolve" THEN <<>> ELSE <<"SH">>]

\* line 741 / lines 779-782
Revolve ==
    /\ pc \in {"sh1_revolve", "sh2_revolve"}
    /\ pc = "sh2_revolve" => shBody.exists
    /\ Log(Call("revolve", NoStep, TRUE, RevolveInput(pc)))
    /\ Create("revolve", NoStep)
    /\ shBody' = IF pc = "sh1_revolve"
                   THEN [exists |-> TRUE, shape |-> <<"revolve">>,
                         rot |-> RInt(0), centre |-> XY(RInt(0), RInt(0))]
                   ELSE [shBody EXCEPT !.shape = Append(@, "intersect")]
    /\ Goto(IF pc = "sh1_revolve" THEN "make_mp_comp" ELSE "describe")
    /\ UNCHANGED <<standard, i, groups, mpBody, exc, outerGroup, report,
                   descs, attribs>>
    /\ UNCHANGED gearVars
    /\ UNCHANGED fnVars
    /\ UNCHANGED extVars

MeshCentre_ShRadius(obj) == RMul(Norm(1, 2), obj.sh_diameter)

\* x = 0.5 * self.sh_diameter + 0.5*self.d_pinion: the origin of the MP
\* rotation (line 397)
MeshCentre(obj) ==
    RAdd(RMul(Norm(1, 2), obj.sh_diameter), RMul(Norm(1, 2), obj.d_pinion))

\* center = Point3D.create(0.5*self.d_pinion+0.5*self.sh_diameter, 0, 0)
MpSketchCentre(obj) ==
    XY(RAdd(RMul(Norm(1, 2), obj.d_pinion),
            RMul(Norm(1, 2), obj.sh_diameter)),
       RInt(0))

\* the two circles of draw_mp_sketch: the tip circle and the hole
MpSketchCircles(obj) ==
    LET tip == RAdd(obj.d_pinion,
                    RMul(RMul(RInt(2), obj.module), Norm(1, 10)))
    IN  <<[center |-> MpSketchCentre(obj), radius |-> RMul(Norm(1, 2), tip)],
          [center |-> MpSketchCentre(obj),
           radius |-> RMul(Norm(1, 2), obj.d_hole_pinion)]>>

\* line 748: draw_mp_sketch
DrawMpSketch ==
    /\ pc = "mp_draw"
    /\ Log(Call("draw_mp_sketch", NoStep, TRUE,
                [circles |-> MpSketchCircles(abenics)]))
    /\ Goto("mp_extrude")
    /\ UNCHANGED <<standard, i, timeline, groups, shBody, mpBody, exc,
                   outerGroup, report, descs, attribs>>
    /\ UNCHANGED gearVars
    /\ UNCHANGED fnVars
    /\ UNCHANGED extVars

\* the profile of mp_sketch with two loops: the ring between the circles
\* that draw_mp_sketch drew
MpProfile ==
    calls[CHOOSE k \in 1 .. Len(calls) :
              calls[k].op = "draw_mp_sketch" /\ calls[k].ok].arg.circles

\* extrude_mp: a new body, symmetric extent of thickness = _thickness.value
\* (line 723)
ExtrudeInput ==
    [profile |-> [sketch |-> "mp_sketch", which |-> "two_loops"],
     operation |-> "NewBody", symmetric |-> TRUE,
     distance |-> dialog.thickness]

ExtrudeMp_ThenIntersect ==
    /\ pc = "mp_extrude"
    /\ Log(Call("extrude", NoStep, TRUE, ExtrudeInput))
    /\ Create("extrude", NoStep)
    /\ mpBody' = [exists |-> TRUE, shape |-> <<"extrude">>, rot |-> RInt(0),
                  centre |-> MpProfile[1].center]
    /\ i' = 0
    /\ Goto("sh2_sketch")
    /\ UNCHANGED <<standard, groups, shBody, exc, outerGroup, report, descs,
                   attribs>>
    /\ UNCHANGED gearVars
    /\ UNCHANGED fnVars
    /\ UNCHANGED extVars

\* line 749: extrude_mp(mp_sketch, thickness); the first step of the loop
\* follows
ExtrudeMp ==
    /\ pc = "mp_extrude"
    /\ Log(Call("extrude", NoStep, TRUE, ExtrudeInput))
    /\ Create("extrude", NoStep)
    /\ mpBody' = [exists |-> TRUE, shape |-> <<"extrude">>, rot |-> RInt(0),
                  centre |-> MpProfile[1].center]
    /\ i' = 0
    /\ Goto("engrave")
    /\ UNCHANGED <<standard, groups, shBody, exc, outerGroup, report, descs,
                   attribs>>
    /\ UNCHANGED gearVars
    /\ UNCHANGED fnVars
    /\ UNCHANGED extVars

\* the order of the statements of the loop body (lines 755-758, 378-404)
LoopOrder_MpFirst == <<"engrave", "rotate_mp", "rotate_sh", "group">>

LoopOrder == <<"engrave", "rotate_sh", "rotate_mp", "group">>

AfterInLoop(p) ==
    LoopOrder[(CHOOSE k \in 1 .. Len(LoopOrder) : LoopOrder[k] = p) + 1]

\* engrave(): the combine input of lines 360-367
CombineInput_ToolConsumed ==
    [target |-> "MP", tools |-> {"SH"}, isKeepToolBodies |-> FALSE,
     operation |-> "Cut"]

CombineInput ==
    [target |-> "MP", tools |-> {"SH"}, isKeepToolBodies |-> TRUE,
     operation |-> "Cut"]

\* the host's combine: the target loses the tools' volume, a tool body is
\* consumed unless it is kept
Combined(body, name, input) ==
    IF name = input.target THEN [body EXCEPT !.shape = Append(@, "cut")]
    ELSE IF name \in input.tools /\ ~input.isKeepToolBodies THEN NoBody
    ELSE body

\* line 755: e = abenics.engrave()
Engrave ==
    /\ pc = "engrave"
    /\ shBody.exists /\ mpBody.exists
    /\ Log(Call("cut", i, TRUE, CombineInput))
    /\ Create("cut", i)
    /\ shBody' = Combined(shBody, "SH", CombineInput)
    /\ mpBody' = Combined(mpBody, "MP", CombineInput)
    /\ Goto(AfterInLoop(pc))
    /\ UNCHANGED <<standard, i, groups, exc, outerGroup, report, descs,
                   attribs>>
    /\ UNCHANGED gearVars
    /\ UNCHANGED fnVars
    /\ UNCHANGED extVars

\* rotate_gears(angle): the two move inputs (lines 382-389, 396-403)
ShMove_WholeAngle(obj, angle) ==
    [body |-> "SH", angle |-> angle, axis |-> "z_up",
     origin |-> XY(RInt(0), RInt(0))]

ShMove(obj, angle) ==
    [body |-> "SH", angle |-> RDiv(angle, obj.gear_ratio), axis |-> "z_up",
     origin |-> XY(RInt(0), RInt(0))]

MpMove_Forward(obj, angle) ==
    [body |-> "MP", angle |-> angle, axis |-> "z_up",
     origin |-> XY(MeshCentre(obj), RInt(0))]

MpMove(obj, angle) ==
    [body |-> "MP", angle |-> RNeg(angle), axis |-> "z_up",
     origin |-> XY(MeshCentre(obj), RInt(0))]

\* a point turned about the z axis through origin: the origin itself stays,
\* any other point goes to the place named by the turn
Turned(point, origin, angle) ==
    IF point = origin THEN point
    ELSE [turned |-> point, about |-> origin, by |-> angle]

\* the host's move: a rotation of the body about the input's axis
Moved(body, name, input) ==
    IF name = input.body
    THEN [body EXCEPT !.rot = RAdd(@, input.angle),
                      !.centre = Turned(@, input.origin, input.angle)]
    ELSE body

\* line 756, first half: moves.add of lines 389-390
RotateSh ==
    /\ pc = "rotate_sh"
    /\ shBody.exists
    /\ LET input == ShMove(abenics, delta_angle)
       IN  /\ Log(Call("rotate_sh", i, TRUE, input))
           /\ shBody' = Moved(shBody, "SH", input)
           /\ mpBody' = Moved(mpBody, "MP", input)
    /\ Create("move_sh", i)
    /\ Goto(AfterInLoop(pc))
    /\ UNCHANGED <<standard, i, groups, exc, outerGroup, report, descs,
                   attribs>>
    /\ UNCHANGED gearVars
    /\ UNCHANGED fnVars
    /\ UNCHANGED extVars

\* line 756, second half: moves.add of lines 403-404
RotateMp ==
    /\ pc = "rotate_mp"
    /\ mpBody.exists
    /\ LET input == MpMove(abenics, delta_angle)
       IN  /\ Log(Call("rotate_mp", i, TRUE, input))
           /\ shBody' = Moved(shBody, "SH", input)
           /\ mpBody' = Moved(mpBody, "MP", input)
    /\ Create("move_mp", i)
    /\ Goto(AfterInLoop(pc))
    /\ UNCHANGED <<standard, i, groups, exc, outerGroup, report, descs,
                   attribs>>
    /\ UNCHANGED gearVars
    /\ UNCHANGED fnVars
    /\ UNCHANGED extVars

IndexOf_AmongFeatures(kind, k) ==
    LET x == CHOOSE y \in 1 .. Len(timeline) : timeline[y] = Feature(kind, k)
    IN  Cardinality({y \in 1 .. x : timeline[y].kind # "group"}) - 1

\* timelineObject.index of a feature, or of the group, of step k: its
\* position in the timeline at the time of the read, counted from 0
IndexOf(kind, k) ==
    (CHOOSE x \in 1 .. Len(timeline) : timeline[x] = Feature(kind, k)) - 1

\* the host's timelineGroups.add(from, to): the group is an object of the
\* timeline with an index of its own, placed before its first member; its
\* members are the objects at the indexes from .. to
GroupMembers(from, to) == SubSeq(timeline, from + 1, to + 1)

Grouped(from, to, step) ==
    /\ timeline' = SubSeq(timeline, 1, from) \o <<Feature("group", step)>>
                       \o SubSeq(timeline, from + 1, Len(timeline))
    /\ groups' = Append(groups, [from |-> from, to |-> to, step |-> step,
                                 members |-> GroupMembers(from, to)])

GroupStep_ExtraStep ==
    /\ pc = "group"
    /\ Log(Call("group", i, TRUE,
                [from |-> IndexOf("cut", i), to |-> IndexOf("move_mp", i)]))
    /\ Grouped(IndexOf("cut", i), IndexOf("move_mp", i), i)
    /\ IF i + 1 \in PyRange(num_steps + 1)
         THEN i' = i + 1 /\ Goto(LoopOrder[1])
         ELSE i' = i /\ Goto("outer_group")
    /\ UNCHANGED <<standard, shBody, mpBody, exc, outerGroup,
                   report, descs, attribs>>
    /\ UNCHANGED gearVars
    /\ UNCHANGED fnVars
    /\ UNCHANGED extVars

\* lines 757-760, and the loop's next index
GroupStep ==
    /\ pc = "group"
    /\ Log(Call("group", i, TRUE,
                [from |-> IndexOf("cut", i), to |-> IndexOf("move_mp", i)]))
    /\ Grouped(IndexOf("cut", i), IndexOf("move_mp", i), i)
    /\ IF i + 1 \in PyRange(num_steps)
         THEN i' = i + 1 /\ Goto(LoopOrder[1])
         ELSE i' = i /\ Goto("outer_group")
    /\ UNCHANGED <<standard, shBody, mpBody, exc, outerGroup,
                   report, descs, attribs>>
    /\ UNCHANGED gearVars
    /\ UNCHANGED fnVars
    /\ UNCHANGED extVars

\* lines 762-768: the outer group, from the group of the first step to the
\* group of the last one
OuterGroupInput ==
    [first_group |-> groups[1].step, last_group |-> groups[Len(groups)].step,
     from |-> IndexOf("group", groups[1].step),
     to |-> IndexOf("group", groups[Len(groups)].step)]

OuterGroupOk ==
    /\ pc = "outer_group"
    /\ Log(Call("outer_group", NoStep, TRUE, OuterGroupInput))
    /\ Grouped(OuterGroupInput.from, OuterGroupInput.to, NoStep)
    /\ outerGroup' = "ok"
    /\ Goto("sh2_sketch")
    /\ UNCHANGED <<standard, i, shBody, mpBody, exc, report,
                   descs, attribs>>
    /\ UNCHANGED gearVars
    /\ UNCHANGED fnVars
    /\ UNCHANGED extVars

\* lines 769-770: except: pass
OuterGroupFail_Propagated ==
    /\ pc = "outer_group"
    /\ Log(Call("outer_group", NoStep, FALSE, OuterGroupInput))
    /\ outerGroup' = "failed"
    /\ exc' = "outer_group"
    /\ Goto("except")
    /\ UNCHANGED <<standard, i, timeline, groups, shBody, mpBody, report,
                   descs, attribs>>
    /\ UNCHANGED gearVars
    /\ UNCHANGED fnVars
    /\ UNCHANGED extVars

OuterGroupFail ==
    /\ pc = "outer_group"
    /\ Log(Call("outer_group", NoStep, FALSE, OuterGroupInput))
    /\ outerGroup' = "failed"
    /\ Goto("sh2_sketch")
    /\ UNCHANGED <<standard, i, timeline, groups, shBody, mpBody, exc,
                   report, descs, attribs>>
    /\ UNCHANGED gearVars
    /\ UNCHANGED fnVars
    /\ UNCHANGED extVars

\* lines 784-803: the descriptions; line 802 overwrites the one of line 800
Describe ==
    /\ pc = "describe"
    /\ Log(Call("describe", NoStep, TRUE, NoArg))
    /\ descs' = [sh |-> "SH_Gear", mp |-> "MP_Gear"]
    /\ Goto("done")
    /\ UNCHANGED <<standard, i, timeline, groups, shBody, mpBody, exc,
                   outerGroup, report, attribs>>
    /\ UNCHANGED gearVars
    /\ UNCHANGED fnVars
    /\ UNCHANGED extVars

\* the input of the call a handler position makes
InputOf(p) ==
    CASE p = "engrave" -> CombineInput
      [] p = "rotate_sh" -> ShMove(abenics, delta_angle)
      [] p = "rotate_mp" -> MpMove(abenics, delta_angle)
      [] OTHER -> NoArg

\* a call into the host raises: control leaves the try block of line 698
HostRaise_Retried ==
    /\ pc \in HostPcs
    /\ Log(Call(OpOf(pc), StepOf(pc, i), FALSE, InputOf(pc)))
    /\ exc' = pc
    /\ Goto(IF exc = pc THEN "except" ELSE pc)
    /\ UNCHANGED <<standard, i, timeline, groups, shBody, mpBody,
                   outerGroup, report, descs, attribs>>
    /\ UNCHANGED gearVars
    /\ UNCHANGED fnVars
    /\ UNCHANGED extVars

HostRaise_LoopContinues ==
    /\ pc \in HostPcs
    /\ Log(Call(OpOf(pc), StepOf(pc, i), FALSE, InputOf(pc)))
    /\ IF pc \in LoopPcs /\ i + 1 \in PyRange(num_steps)
         THEN i' = i + 1 /\ Goto(LoopOrder[1]) /\ UNCHANGED exc
         ELSE i' = i /\ Goto("except") /\ exc' = pc
    /\ UNCHANGED <<standard, timeline, groups, shBody, mpBody,
                   outerGroup, report, descs, attribs>>
    /\ UNCHANGED gearVars
    /\ UNCHANGED fnVars
    /\ UNCHANGED extVars

HostRaise ==
    /\ pc \in HostPcs
    /\ Log(Call(OpOf(pc), StepOf(pc, i), FALSE, InputOf(pc)))
    /\ exc' = pc
    /\ Goto("except")
    /\ UNCHANGED <<standard, i, timeline, groups, shBody, mpBody,
                   outerGroup, report, descs, attribs>>
    /\ UNCHANGED gearVars
    /\ UNCHANGED fnVars
    /\ UNCHANGED extVars

\* traceback.format_exc(): the statement that raised and the frames above
\* it; the values of local variables are no part of it
FailureReport(p, k) == [text |-> "Failed", traceback |-> p]

\* lines 804-806
Except ==
    /\ pc = "except"
    /\ report' = FailureReport(exc, i)
    /\ Goto("done")
    /\ UNCHANGED <<standard, i, calls, timeline, groups, shBody, mpBody,
                   exc, outerGroup, descs, attribs>>
    /\ UNCHANGED gearVars
    /\ UNCHANGED fnVars
    /\ UNCHANGED extVars

Init ==
    /\ dialog \in Dialogs
    /\ standard \in {"English", "Metric"}
    /\ args = DefaultArgs
    /\ pc = "read_standard"
    /\ abenics = NoObject
    /\ gpc = "idle"
    /\ axis = RInt(0)
    /\ ti = 0
    /\ toothCalls = <<>>
    /\ IdleHandler
    /\ IdleFns

Next ==
    \/ ReadStandard
    \/ SaveAttributes
    \/ Construct
    \/ MakeComp
    \/ AddSketch
    \/ CallDrawGear
    \/ DrawGearFan
    \/ DrawTooth
    \/ DrawGearReturn
    \/ DrawGearRaise
    \/ ReturnDrawGear
    \/ PropagateDrawGear
    \/ Revolve
    \/ DrawMpSketch
    \/ ExtrudeMp
    \/ Engrave
    \/ RotateSh
    \/ RotateMp
    \/ GroupStep
    \/ OuterGroupOk
    \/ OuterGroupFail
    \/ Describe
    \/ HostRaise
    \/ Except

Spec == Init /\ [][Next]_vars

----------------------------------------------------------------------------
(* involutePoint and get_involutePoints                                    *)

InvoluteRaises_AtBaseCircle(baseCircleRadius, dist) ==
    \/ ~RLt(RAbs(baseCircleRadius), RAbs(dist))
    \/ baseCircleRadius.n = 0
    \/ dist.n = 0

\* lines 1072-1080 raise: math.sqrt of a negative number (dist^2 - base^2
\* < 0, that is |dist| < |base|), or a division by zero
InvoluteRaises(baseCircleRadius, dist) ==
    \/ RLt(RAbs(dist), RAbs(baseCircleRadius))
    \/ baseCircleRadius.n = 0
    \/ dist.n = 0

\* theta = alpha - math.acos(base / dist), alpha = triangleSide / base:
\* sqrt(0) = 0 and acos(1) = 0 when the distance is the base radius
InvoluteTheta(baseCircleRadius, dist) ==
    LET q == RDiv(baseCircleRadius, dist)
    IN  IF q = RInt(1) THEN ZeroAngle
        ELSE [pi |-> RInt(0), rad |-> RInt(0), inv |-> {<<q, 1>>}]

\* the except clause of lines 1088-1090 shows a message box and the function
\* falls off its end
involutePoint(baseCircleRadius, dist) ==
    IF InvoluteRaises(baseCircleRadius, dist)
    THEN None
    ELSE Point(dist, InvoluteTheta(baseCircleRadius, dist))

InvoluteRadius_OverNum(bd, od, num, k) ==
    RAdd(RMul(Norm(1, 2), bd),
         RMul(RDiv(RMul(Norm(1, 2), RSub(od, bd)), RInt(num)), RInt(k)))

\* r = (0.5*bd) + ((involute_size / (num - 1)) * i)
InvoluteRadius(bd, od, num, k) ==
    RAdd(RMul(Norm(1, 2), bd),
         RMul(RDiv(RMul(Norm(1, 2), RSub(od, bd)), RInt(num - 1)), RInt(k)))

\* the whole of get_involutePoints, for a num that does not divide by zero
get_involutePoints(bd, od, num) ==
    [k \in 1 .. num |->
        involutePoint(RMul(Norm(1, 2), bd), InvoluteRadius(bd, od, num, k - 1))]

\* lines 1005-1006
InvoluteEnter ==
    /\ inv.pc = "called"
    /\ inv' = [pc |-> "loop", bd |-> inv.bd, od |-> inv.od, num |-> inv.num,
               i |-> 0, points |-> <<>>, boxes |-> 0]
    /\ UNCHANGED <<tooth, val>>
    /\ UNCHANGED <<args, abenics, gpc, axis, ti, toothCalls>>
    /\ UNCHANGED handlerVars
    /\ UNCHANGED extVars

\* lines 1007-1010: one iteration of the loop
InvoluteIter ==
    /\ inv.pc = "loop"
    /\ inv.i \in PyRange(inv.num)
    /\ inv.num - 1 # 0
    /\ LET r == InvoluteRadius(inv.bd, inv.od, inv.num, inv.i)
           p == involutePoint(RMul(Norm(1, 2), inv.bd), r)
       IN  inv' = [inv EXCEPT !.points = Append(@, p),
                              !.boxes = IF p = None THEN @ + 1 ELSE @,
                              !.i = @ + 1]
    /\ UNCHANGED <<tooth, val>>
    /\ UNCHANGED <<args, abenics, gpc, axis, ti, toothCalls>>
    /\ UNCHANGED handlerVars
    /\ UNCHANGED extVars

\* line 1008 divides by num - 1 = 0
InvoluteZeroDivision ==
    /\ inv.pc = "loop"
    /\ inv.i \in PyRange(inv.num)
    /\ inv.num - 1 = 0
    /\ inv' = [inv EXCEPT !.pc = "raised"]
    /\ UNCHANGED <<tooth, val>>
    /\ UNCHANGED <<args, abenics, gpc, axis, ti, toothCalls>>
    /\ UNCHANGED handlerVars
    /\ UNCHANGED extVars

\* line 1011
InvoluteReturn ==
    /\ inv.pc = "loop"
    /\ inv.i \notin PyRange(inv.num)
    /\ inv' = [inv EXCEPT !.pc = "returned"]
    /\ UNCHANGED <<tooth, val>>
    /\ UNCHANGED <<args, abenics, gpc, axis, ti, toothCalls>>
    /\ UNCHANGED handlerVars
    /\ UNCHANGED extVars

(* A caller of get_involutePoints, for every argument of the bounded sets  *)

MaxBd == 4
MaxOd == 5
MaxNum == 4

InvoluteInit ==
    /\ dialog = DefaultDialog
    /\ standard = "Metric"
    /\ args = DefaultArgs
    /\ pc = "involute"
    /\ abenics = NoObject
    /\ gpc = "idle"
    /\ axis = RInt(0)
    /\ ti = 0
    /\ toothCalls = <<>>
    /\ IdleHandler
    /\ \E bd \in 1 .. MaxBd, od \in 1 .. MaxOd, num \in 1 .. MaxNum :
           inv = [pc |-> "called", bd |-> RInt(bd), od |-> RInt(od),
                  num |-> num]
    /\ tooth = NoFrame
    /\ val = NoFrame

InvoluteNext ==
    \/ InvoluteEnter
    \/ InvoluteIter
    \/ InvoluteZeroDivision
    \/ InvoluteReturn

SpecInvolute == InvoluteInit /\ [][InvoluteNext]_vars

----------------------------------------------------------------------------
(* GearCommandValidateInputsHandler.notify                                 *)
(*                                                                         *)
(* The text of the tooth-count input is a sequence of characters.  The     *)
(* value inputs are the environment's: whether the module and the hole     *)
(* diameter are valid expressions, and whether the hole diameter and the   *)
(* root fillet radius exceed the limits computed in lines 938-980.         *)

Digits == {"0", "1", "2", "3", "4", "5", "6", "7", "8", "9"}

\* str.isdigit(): at least one character and every character a digit
IsDigit(s) == Len(s) > 0 /\ \A k \in 1 .. Len(s) : s[k] \in Digits

DigitValue(c) ==
    CASE c = "0" -> 0 [] c = "1" -> 1 [] c = "2" -> 2 [] c = "3" -> 3
      [] c = "4" -> 4 [] c = "5" -> 5 [] c = "6" -> 6 [] c = "7" -> 7
      [] c = "8" -> 8 [] c = "9" -> 9

\* int() of a string of digits
RECURSIVE StrToInt(_)
StrToInt(s) ==
    IF s = <<>> THEN 0
    ELSE 10 * StrToInt(SubSeq(s, 1, Len(s) - 1)) + DigitValue(s[Len(s)])

WholeNumberMessage == "The number of teeth must be a whole number."
MinTeethMessage == "The number of teeth must be 4 or more."
HoleMessage == "The center hole diameter is too large.  It must be less than "
FilletMessage == "The root fillet radius is too large.  It must be less than "

\* eventArgs.areInputsValid = False; return
Reject(message) ==
    [val EXCEPT !.pc = "returned", !.areInputsValid = FALSE,
                !.errMessage = message]

\* the check named c begins
Checking(frame, c) == [frame EXCEPT !.checks = Append(@, c)]

ValidateUnchanged ==
    /\ UNCHANGED <<inv, tooth>>
    /\ UNCHANGED <<args, abenics, gpc, axis, ti, toothCalls>>
    /\ UNCHANGED handlerVars
    /\ UNCHANGED extVars

\* line 907
ValidateEnter ==
    /\ val.pc = "called"
    /\ val' = [val EXCEPT !.pc = "digits", !.errMessage = ""]
    /\ ValidateUnchanged

\* lines 910-915
ValidateDigits ==
    /\ val.pc = "digits"
    /\ val' = Checking(
           IF ~IsDigit(val.num_teeth_sh)
           THEN Reject(WholeNumberMessage)
           ELSE [val EXCEPT !.pc = "min_teeth",
                            !.numTeeth = StrToInt(val.num_teeth_sh)],
           "digits")
    /\ ValidateUnchanged

ValidateMinTeeth_Continues ==
    /\ val.pc = "min_teeth"
    /\ val' = Checking(
           IF val.numTeeth < 4
           THEN [Reject(MinTeethMessage) EXCEPT !.pc = "pitch"]
           ELSE [val EXCEPT !.pc = "pitch"],
           "min_teeth")
    /\ ValidateUnchanged

\* lines 917-920
ValidateMinTeeth ==
    /\ val.pc = "min_teeth"
    /\ val' = Checking(
           IF val.numTeeth < 4
           THEN Reject(MinTeethMessage)
           ELSE [val EXCEPT !.pc = "pitch"],
           "min_teeth")
    /\ ValidateUnchanged

\* getCommandInputValue(_diaPitch, ''): _diaPitch is the cast of None (line
\* 41), so the result is (False, 0); getCommandInputValue(_module, '') is
\* (True, value) for a valid expression
PitchResult ==
    IF PitchInput(standard) \in CreatedInputs THEN val.moduleValid ELSE FALSE

\* lines 923-936
ValidatePitch ==
    /\ val.pc = "pitch"
    /\ val' = Checking(
           IF ~PitchResult
           THEN [val EXCEPT !.pc = "returned", !.areInputsValid = FALSE]
           ELSE [val EXCEPT !.pc = "hole"],
           "pitch")
    /\ ValidateUnchanged

\* lines 938-978: the sizes, then the hole diameter
ValidateHole ==
    /\ val.pc = "hole"
    /\ val' = Checking(
           IF ~val.holeValid
           THEN [val EXCEPT !.pc = "returned", !.areInputsValid = FALSE]
           ELSE IF val.holeTooLarge
                THEN Reject(HoleMessage)
                ELSE [val EXCEPT !.pc = "fillet"],
           "hole")
    /\ ValidateUnchanged

\* lines 980-986, and the end of the handler
ValidateFillet ==
    /\ val.pc = "fillet"
    /\ val' = Checking(
           IF val.filletTooLarge
           THEN Reject(FilletMessage)
           ELSE [val EXCEPT !.pc = "returned"],
           "fillet")
    /\ ValidateUnchanged

(* The host fires the event for every text of the bounded set              *)

MaxTeethText == 2

TeethChars == {"0", "1", "3", "4", "x", "-"}

TeethTexts ==
    UNION {[1 .. n -> TeethChars] : n \in 0 .. MaxTeethText}

ValidateInit ==
    /\ dialog = DefaultDialog
    /\ standard \in {"English", "Metric"}
    /\ args = DefaultArgs
    /\ pc = "validate"
    /\ abenics = NoObject
    /\ gpc = "idle"
    /\ axis = RInt(0)
    /\ ti = 0
    /\ toothCalls = <<>>
    /\ IdleHandler
    /\ inv = NoFrame
    /\ tooth = NoFrame
    /\ \E t \in TeethTexts, mv \in BOOLEAN, hv \in BOOLEAN,
          hl \in BOOLEAN, fl \in BOOLEAN :
           val = [pc |-> "called", num_teeth_sh |-> t, numTeeth |-> 0,
                  moduleValid |-> mv, holeValid |-> hv,
                  holeTooLarge |-> hl, filletTooLarge |-> fl,
                  areInputsValid |-> TRUE, errMessage |-> "stale",
                  checks |-> <<>>]

ValidateNext ==
    \/ ValidateEnter
    \/ ValidateDigits
    \/ ValidateMinTeeth
    \/ ValidatePitch
    \/ ValidateHole
    \/ ValidateFillet

SpecValidate == ValidateInit /\ [][ValidateNext]_vars

----------------------------------------------------------------------------
(* ABENICS.draw_tooth, statement by statement                              *)

involute_point_count == 15

MirrorX_Identity(p) == p

\* adsk.core.Point3D.create(p.x, -p.y, 0): the same distance at the negated
\* angle
MirrorX(p) == Point(p.r, ANeg(p.theta))

\* math.atan(y / x) of the involute point at the pitch circle: the point's
\* angle, which lies between 0 and pi/2
pitch_point_angle(obj) ==
    involutePoint(RMul(Norm(1, 2), base_diameter(obj)),
                  RMul(Norm(1, 2), obj.sh_diameter)).theta

\* (2 * math.pi) / (2 * self.num_teeth_sh), in units of pi
tooth_thickness_angle(obj) == RDiv(RInt(2), RInt(2 * obj.num_teeth_sh))

\* (self.backlash / (0.5*self.sh_diameter)) * .25, in radians
backlashAngle(obj) ==
    RMul(RDiv(obj.backlash, RMul(Norm(1, 2), obj.sh_diameter)),
         Norm(25, 100))

rotate_angle_WholeThickness(obj) ==
    ANeg(ASub(AAdd(PiAngle(tooth_thickness_angle(obj)),
                   pitch_point_angle(obj)),
              RadAngle(backlashAngle(obj))))

\* -((0.5*tooth_thickness_angle) + pitch_point_angle - backlashAngle)
rotate_angle(obj) ==
    ANeg(ASub(AAdd(PiAngle(RMul(Norm(1, 2), tooth_thickness_angle(obj))),
                   pitch_point_angle(obj)),
              RadAngle(backlashAngle(obj))))

\* Point3D.create((0.5*root_diameter - 0.001) * cos(a),
\*                (0.5*root_diameter) * sin(a), 0)
RootPoint(root_diameter, a) ==
    [rx |-> RSub(RMul(Norm(1, 2), root_diameter), Norm(1, 1000)),
     ry |-> RMul(Norm(1, 2), root_diameter),
     theta |-> a]

SketchSpline(name, points) ==
    [op |-> "spline", name |-> name, points |-> points]

SketchArc(start, mid, end) ==
    [op |-> "arc", start |-> start, mid |-> mid, end |-> end]

SketchLine(name, start, end) ==
    [op |-> "line", name |-> name, start |-> start, end |-> end]

Fixed(line) == [op |-> "fixed", line |-> line]

Tangent(curve, line) == [op |-> "tangent", curve |-> curve, line |-> line]

ToothUnchanged ==
    /\ UNCHANGED <<inv, val>>
    /\ UNCHANGED <<args, abenics, gpc, axis, ti, toothCalls>>
    /\ UNCHANGED handlerVars
    /\ UNCHANGED extVars

\* lines 162-191: the involute, the centering angle, the centred flank A
ToothInvolute ==
    /\ tooth.pc = "called"
    /\ LET obj == tooth.obj
           points == get_involutePoints(base_diameter(obj),
                                        tooth.tip_diameter,
                                        involute_point_count)
       IN  tooth' = [tooth EXCEPT
                         !.pc = "mirror",
                         !.rotate_angle = rotate_angle(obj),
                         !.a = rotate_points(points, rotate_angle(obj))]
    /\ ToothUnchanged

\* lines 195-198: flank B, point by point
ToothMirror ==
    /\ tooth.pc = "mirror"
    /\ tooth' = [tooth EXCEPT
                     !.pc = "place",
                     !.centred = tooth.a,
                     !.b = [k \in 1 .. involute_point_count |->
                               MirrorX(tooth.a[k])]]
    /\ ToothUnchanged

\* lines 201-207: both flanks rotated by the placement angle
ToothPlace ==
    /\ tooth.pc = "place"
    /\ tooth' = [tooth EXCEPT
                     !.pc = "splines",
                     !.a = rotate_points(@, PiAngle(tooth.angle)),
                     !.b = rotate_points(@, PiAngle(tooth.angle))]
    /\ ToothUnchanged

\* lines 209-232: the two splines and the tip arc
ToothSplines ==
    /\ tooth.pc = "splines"
    /\ LET midPoint == rotate_point(
               Point(RMul(Norm(1, 2), tooth.tip_diameter), ZeroAngle),
               PiAngle(tooth.angle))
       IN  tooth' = [tooth EXCEPT
               !.pc = "root",
               !.sketch = <<SketchSpline("spline_a", tooth.a),
                            SketchSpline("spline_b", tooth.b),
                            SketchArc(tooth.a[Len(tooth.a)], midPoint,
                                      tooth.b[Len(tooth.b)])>>]
    /\ ToothUnchanged

RootSketch_AlwaysRelief(t) ==
    LET rootPoint1 == RootPoint(t.root_diameter, t.a[1].theta)
        rootPoint2 == RootPoint(t.root_diameter, t.b[1].theta)
    IN  <<SketchLine("line1", rootPoint1, t.a[1]),
          SketchLine("line2", rootPoint2, t.b[1]),
          SketchLine("baseLine", rootPoint1, rootPoint2),
          Fixed("line1"), Fixed("line2"),
          Tangent("spline_a", "line1"), Tangent("spline_b", "line2")>>

\* lines 236-257: the sketch calls that close the root; curve1Angle[0] and
\* curve2Angle[0] are the angles of the first points of the flanks
RootSketch(t) ==
    IF RootClosing(t.obj, t.root_diameter) = "direct"
    THEN <<SketchLine("line", t.b[1], t.a[1])>>
    ELSE LET rootPoint1 == RootPoint(t.root_diameter, t.a[1].theta)
             rootPoint2 == RootPoint(t.root_diameter, t.b[1].theta)
         IN  <<SketchLine("line1", rootPoint1, t.a[1]),
               SketchLine("line2", rootPoint2, t.b[1]),
               SketchLine("baseLine", rootPoint1, rootPoint2),
               Fixed("line1"), Fixed("line2"),
               Tangent("spline_a", "line1"), Tangent("spline_b", "line2")>>

ToothRoot ==
    /\ tooth.pc = "root"
    /\ tooth' = [tooth EXCEPT !.pc = "returned",
                              !.sketch = @ \o RootSketch(tooth)]
    /\ ToothUnchanged

\* a sketch call raises
ToothRaise ==
    /\ tooth.pc \in {"splines", "root"}
    /\ tooth' = [tooth EXCEPT !.pc = "raised"]
    /\ ToothUnchanged

(* A caller of draw_tooth: the object of every argument set, the root      *)
(* diameter of draw_gear or one at or below the base diameter              *)

ToothObjects ==
    {NewABENICS(a) : a \in {x \in ArgSets : x.gear_ratio = RInt(2)}}

RootDiameters(obj) ==
    {root_dia(obj), base_diameter(obj),
     RSub(base_diameter(obj), Norm(1, 10))}

PlacementAngles(obj) ==
    {RInt(0), ToothAngle(obj, 0, RInt(0)), ToothAngle(obj, 1, Norm(1, 2))}

ToothInit ==
    /\ dialog = DefaultDialog
    /\ standard = "Metric"
    /\ args = DefaultArgs
    /\ pc = "tooth"
    /\ abenics = NoObject
    /\ gpc = "idle"
    /\ axis = RInt(0)
    /\ ti = 0
    /\ toothCalls = <<>>
    /\ IdleHandler
    /\ inv = NoFrame
    /\ val = NoFrame
    /\ \E obj \in ToothObjects :
       \E root \in RootDiameters(obj), angle \in PlacementAngles(obj) :
           tooth = [pc |-> "called", obj |-> obj, root_diameter |-> root,
                    tip_diameter |-> tip_diameter(obj), angle |-> angle,
                    rotate_angle |-> ZeroAngle, a |-> <<>>,
                    centred |-> <<>>, b |-> <<>>, sketch |-> <<>>]

ToothNext ==
    \/ ToothInvolute
    \/ ToothMirror
    \/ ToothPlace
    \/ ToothSplines
    \/ ToothRoot
    \/ ToothRaise

SpecTooth == ToothInit /\ [][ToothNext]_vars

----------------------------------------------------------------------------
(* The engrave loop                                                        *)

IsLoopCall(c) == c.step # NoStep

LoopCalls == SelectSeq(calls, IsLoopCall)

OkCount(op) ==
    Cardinality({k \in 1 .. Len(calls) : calls[k].op = op /\ calls[k].ok})

\* the loop has been entered and no later stage has changed a body
LoopRunning == pc \in LoopPcs \/ pc = "outer_group" \/ exc \in LoopPcs

\* every step of the loop has completed
LoopCompleted == Len(groups) >= num_steps

\* C1: every boolean cut the loop issues has the MP body as target, the SH
\* body as its only tool and keeps the tool; while the loop runs the SH
\* body exists with the material the first revolve gave it, and the MP body
\* alone has lost material, once per cut.
C1_CutKeepsTool ==
    /\ \A k \in 1 .. Len(calls) :
           calls[k].op = "cut" =>
               /\ calls[k].arg.target = "MP"
               /\ calls[k].arg.tools = {"SH"}
               /\ calls[k].arg.isKeepToolBodies
               /\ calls[k].arg.operation = "Cut"
    /\ LoopRunning =>
           /\ shBody.exists
           /\ shBody.shape = <<"revolve">>
           /\ mpBody.exists
           /\ Len(mpBody.shape) = 1 + OkCount("cut")
           /\ \A k \in 2 .. Len(mpBody.shape) : mpBody.shape[k] = "cut"

C1_Witness ==
    /\ pc = "outer_group"
    /\ OkCount("cut") = num_steps
    /\ shBody.exists
    /\ Len(mpBody.shape) = num_steps + 1

\* C2: the calls of the loop are issued as cut, SH rotation, MP rotation,
\* group, step after step in increasing order of the step index, with
\* nothing of another stage between them; a call of the loop is issued only
\* after every earlier call of the loop has succeeded.
C2_StepOrder ==
    LET order == <<"cut", "rotate_sh", "rotate_mp", "group">>
    IN  /\ \A k \in 1 .. Len(LoopCalls) :
               /\ LoopCalls[k].op = order[((k - 1) % 4) + 1]
               /\ LoopCalls[k].step = (k - 1) \div 4
               /\ k < Len(LoopCalls) => LoopCalls[k].ok
        /\ LET at == {k \in 1 .. Len(calls) : IsLoopCall(calls[k])}
           IN  at # {} =>
                   \E f \in 1 .. Len(calls) :
                       at = f .. (f + Len(LoopCalls) - 1)

C2_Witness ==
    /\ pc = "outer_group"
    /\ Len(LoopCalls) = 4 * num_steps
    /\ LoopCalls[4 * num_steps].op = "group"
    /\ LoopCalls[4 * num_steps].step = num_steps - 1

\* C3: every MP rotation is by -2*pi/S and every SH rotation by
\* (2*pi/S)/gearRatio; each body has turned by the sum of its rotations, and
\* after the S steps the MP body has turned by -2*pi and the SH body by
\* 2*pi/gearRatio, which is pi for the handler's gearRatio 2 and S 36.
C3_Closure ==
    /\ \A k \in 1 .. Len(calls) :
           /\ calls[k].op = "rotate_mp" =>
                  calls[k].arg.angle.n * num_steps = -2 * calls[k].arg.angle.d
           /\ calls[k].op = "rotate_sh" =>
                  calls[k].arg.angle.n * num_steps * args.gear_ratio.n
                      = 2 * calls[k].arg.angle.d * args.gear_ratio.d
    /\ mpBody.exists =>
           mpBody.rot.n * num_steps = -2 * OkCount("rotate_mp") * mpBody.rot.d
    /\ (shBody.exists /\ abenics # NoObject) =>
           shBody.rot.n * num_steps * args.gear_ratio.n
               = 2 * OkCount("rotate_sh") * shBody.rot.d * args.gear_ratio.d
    /\ LoopCompleted =>
           /\ OkCount("rotate_mp") = num_steps
           /\ OkCount("rotate_sh") = num_steps
           /\ mpBody.rot = [n |-> -2, d |-> 1]
           /\ shBody.rot = [n |-> 1, d |-> 1]

C3_Witness ==
    /\ pc = "outer_group"
    /\ LoopCompleted
    /\ args.gear_ratio = [n |-> 2, d |-> 1]
    /\ shBody.rot = [n |-> 1, d |-> 1]
    /\ mpBody.rot = [n |-> -2, d |-> 1]

\* C4: a call of the loop that raises is the last call the handler issues:
\* no cut, rotation or group follows it, the outer group is not attempted,
\* the SH body is not revolved again and no description is set.
C4_AbortOnFailure ==
    \A k \in 1 .. Len(calls) :
        (IsLoopCall(calls[k]) /\ ~calls[k].ok) =>
            /\ k = Len(calls)
            /\ exc \in LoopPcs
            /\ pc \in {"except", "done"}
            /\ outerGroup = "none"
            /\ shBody.shape = <<"revolve">>
            /\ descs = [sh |-> "", mp |-> ""]

C4_Witness ==
    /\ pc = "done"
    /\ exc = "rotate_mp"
    /\ i = 5
    /\ ~calls[Len(calls)].ok
    /\ calls[Len(calls)].step = 5

FailedAt == {k \in 1 .. Len(calls) : ~calls[k].ok}

\* C5, as claimed: the report of a failed step tells the step from every
\* other step, that is, the same call failing in another step would have
\* been reported differently.
C5_ReportNamesStep ==
    (report # NoReport /\ exc \in LoopPcs) =>
        \A k \in PyRange(num_steps) :
            k # i => FailureReport(exc, k) # report

\* C5, amended: a call of the loop that raises is issued once and never
\* again, and the report is the traceback of the statement that raised,
\* the same whatever the step.
C5_NoRetryReportByCall ==
    exc \in LoopPcs =>
        /\ Cardinality(FailedAt) = 1
        /\ FailedAt = {Len(calls)}
        /\ calls[Len(calls)].op = OpOf(exc)
        /\ calls[Len(calls)].step = i
        /\ \A k \in 1 .. (Len(calls) - 1) :
               ~(calls[k].op = OpOf(exc) /\ calls[k].step = i)
        /\ pc = "done" =>
               /\ report.traceback = exc
               /\ \A k \in PyRange(num_steps) : report = FailureReport(exc, k)

C5_Witness ==
    /\ pc = "done"
    /\ exc = "engrave"
    /\ i = 7
    /\ report # NoReport
    /\ ~calls[Len(calls)].ok

\* the calls of the stages after the outer group
AfterOuterGroup ==
    LET at == CHOOSE k \in 1 .. Len(calls) : calls[k].op = "outer_group"
    IN  SubSeq(calls, at + 1, Len(calls))

\* C6: when folding the groups into the outer group fails, the failure does
\* not reach the except clause and is not reported, every cut and rotation
\* of the loop stands, and the second SH sketch, the intersect revolve and
\* the descriptions follow, the same calls as after a successful grouping.
C6_OuterGroupSwallowed ==
    /\ outerGroup = "failed" =>
           /\ exc # "outer_group"
           /\ pc \in {"sh2_sketch", "sh2_draw", "sh2_revolve", "describe",
                      "except", "done"}
           /\ exc = "none" => report = NoReport
           /\ Len(mpBody.shape) = num_steps + 1
           /\ mpBody.rot = [n |-> -2, d |-> 1]
           /\ shBody.rot = [n |-> 1, d |-> 1]
           /\ Len(groups) = num_steps
    /\ (outerGroup # "none" /\ pc = "done" /\ exc = "none") =>
           /\ AfterOuterGroup =
                  << Call("sketch_add", NoStep, TRUE,
                          [sketch |-> "i_sketch", comp |-> "sh_comp"]),
                     Call("draw_gear", NoStep, TRUE,
                          [sketch |-> "i_sketch",
                           axis_angle |-> [n |-> 1, d |-> 2]]),
                     Call("revolve", NoStep, TRUE,
                          [profiles |-> [sketch |-> "i_sketch",
                                         which |-> "all"],
                           axis |-> RootFan(abenics, "i_sketch",
                                            [n |-> 1, d |-> 2]).l,
                           angle |-> [n |-> 2, d |-> 1],
                           operation |-> "Intersect",
                           participants |-> <<"SH">>]),
                     Call("describe", NoStep, TRUE, NoArg) >>
           /\ shBody.shape = <<"revolve", "intersect">>
           /\ descs = [sh |-> "SH_Gear", mp |-> "MP_Gear"]

C6_Witness ==
    /\ pc = "done"
    /\ outerGroup = "failed"
    /\ exc = "none"
    /\ report = NoReport
    /\ descs.sh = "SH_Gear"

----------------------------------------------------------------------------
(* The gear parameters and the profile layout                              *)

\* C7: the mating gear's tooth count q is the floor of N / g, that is
\* q*g <= N < (q+1)*g; it is 20 for N = 40 and g = 2.
C7_PinionTeethFloor ==
    abenics # NoObject =>
        LET q == abenics.num_teeth_pinion
            N == args.num_teeth_sh
            g == args.gear_ratio
        IN  /\ q * g.n <= N * g.d
            /\ N * g.d < (q + 1) * g.n
            /\ (N = 40 /\ g = [n |-> 2, d |-> 1]) => q = 20

C7_Witness ==
    /\ abenics # NoObject
    /\ args.num_teeth_sh = 7
    /\ args.gear_ratio = [n |-> 2, d |-> 1]
    /\ abenics.num_teeth_pinion = 3

\* C8: the SH pitch diameter is module (mm) times the tooth count, held in
\* cm, and the MP pitch diameter is the SH pitch diameter over the gear
\* ratio; module 1.0, 40 teeth and ratio 2 give 4 cm and 2 cm.
C8_PitchDiameters ==
    abenics # NoObject =>
        LET m == args.module
            N == args.num_teeth_sh
            g == args.gear_ratio
            sh == abenics.sh_diameter
            mp == abenics.d_pinion
        IN  /\ sh.n * m.d * 10 = sh.d * m.n * N
            /\ mp.n * sh.d * g.n = sh.n * mp.d * g.d
            /\ args = DefaultArgs =>
                   /\ sh = [n |-> 4, d |-> 1]
                   /\ mp = [n |-> 2, d |-> 1]

\* C9: in the scenario of the handler (module 1.0, 20 degrees, 40 teeth) the
\* base diameter is not below the root diameter and every tooth is closed by
\* the two root-relief lines and the closing line.
C9_ScenarioReliefBranch ==
    (args = DefaultArgs /\ toothCalls # <<>>) =>
        /\ ~RLt(base_diameter(abenics), root_dia(abenics))
        /\ \A k \in 1 .. Len(toothCalls) : toothCalls[k].closing = "relief"

\* C10: the k-th invocation of draw_tooth has the placement angle
\* (2*pi/N)*(k-1) + (2*pi/N)/2 + axis angle and the root and tip diameter of
\* the first invocation; draw_gear returns after floor(N/2) invocations.
C10_ToothCalls ==
    LET N == args.num_teeth_sh
    IN  /\ \A k \in 1 .. Len(toothCalls) :
               LET t == toothCalls[k]
               IN  /\ t.angle.n * N * axis.d
                          = t.angle.d * ((2 * k - 1) * axis.d + axis.n * N)
                   /\ t.root_diameter = toothCalls[1].root_diameter
                   /\ t.tip_diameter = toothCalls[1].tip_diameter
        /\ abenics # NoObject => Len(toothCalls) <= N \div 2
        /\ gpc = "returned" => Len(toothCalls) = N \div 2

C10_Witness ==
    /\ gpc = "returned"
    /\ args.num_teeth_sh = 7
    /\ axis = [n |-> 1, d |-> 2]
    /\ Len(toothCalls) = 3
    /\ toothCalls[3].angle = [n |-> 17, d |-> 14]

----------------------------------------------------------------------------
(* The involute generator                                                  *)

\* get_involutePoints has returned for a base diameter > 0, an outside
\* diameter >= the base diameter and at least two samples
InvoluteReturnedInDomain ==
    /\ inv.pc = "returned"
    /\ inv.bd.n > 0
    /\ ~RLt(inv.od, inv.bd)
    /\ inv.num >= 2

\* C11 (as stated): for od >= bd and n >= 2 get_involutePoints returns
\* exactly n points whose distances from the origin are strictly increasing,
\* the first bd/2 and the last od/2.
C11_StrictlyIncreasing ==
    InvoluteReturnedInDomain =>
        /\ Len(inv.points) = inv.num
        /\ \A k \in 1 .. Len(inv.points) : inv.points[k] # None
        /\ \A k \in 1 .. (Len(inv.points) - 1) :
               RLt(Distance(inv.points[k]), Distance(inv.points[k + 1]))
        /\ Distance(inv.points[1]) = RDiv(inv.bd, RInt(2))
        /\ Distance(inv.points[inv.num]) = RDiv(inv.od, RInt(2))

\* C11 (amended): for od >= bd and n >= 2 get_involutePoints returns exactly
\* n points, the k-th at the distance bd/2 + (k-1)*(od-bd)/(2*(n-1)) from the
\* origin, so the first at bd/2 and the last at od/2; the distances are
\* strictly increasing when od > bd and all equal to bd/2 when od = bd.
C11_SampledRadii ==
    InvoluteReturnedInDomain =>
        /\ Len(inv.points) = inv.num
        /\ \A k \in 1 .. Len(inv.points) :
               /\ inv.points[k] # None
               /\ Distance(inv.points[k]) =
                      RDiv(RAdd(RMul(inv.bd, RInt(inv.num - 1)),
                                RMul(RInt(k - 1), RSub(inv.od, inv.bd))),
                           RInt(2 * (inv.num - 1)))
        /\ Distance(inv.points[1]) = RDiv(inv.bd, RInt(2))
        /\ Distance(inv.points[inv.num]) = RDiv(inv.od, RInt(2))
        /\ RLt(inv.bd, inv.od) =>
               \A k \in 1 .. (Len(inv.points) - 1) :
                   RLt(Distance(inv.points[k]), Distance(inv.points[k + 1]))
        /\ inv.od = inv.bd =>
               \A k \in 1 .. Len(inv.points) :
                   Distance(inv.points[k]) = RDiv(inv.bd, RInt(2))

C11_Witness ==
    /\ inv.pc = "returned"
    /\ inv.bd = RInt(2)
    /\ inv.od = RInt(5)
    /\ inv.num = 4
    /\ Len(inv.points) = 4
    /\ inv.points[2] # None
    /\ Distance(inv.points[2]) = [n |-> 3, d |-> 2]
    /\ Distance(inv.points[4]) = [n |-> 5, d |-> 2]

\* the point (x, 0): distance x at the angle 0, x*cos(0) = x, x*sin(0) = 0
OnXAxisAt(p, x) == p # None /\ p.r = x /\ p.theta = ZeroAngle

\* C12: involutePoint(b, b), b > 0, raises no domain error and returns the
\* point (b, 0); it is the first sample of every get_involutePoints call, and
\* with od = bd the call completes without error, every sample being
\* (bd/2, 0).
C12_BaseCirclePoint ==
    LET b == RMul(Norm(1, 2), inv.bd)
    IN  inv.pc # "idle" =>
            /\ ~InvoluteRaises(b, b)
            /\ involutePoint(b, b) = Point(b, ZeroAngle)
            /\ (inv.pc \in {"loop", "returned"} /\ Len(inv.points) >= 1) =>
                   OnXAxisAt(inv.points[1], b)
            /\ (inv.od = inv.bd /\ inv.num >= 2) =>
                   /\ inv.pc # "raised"
                   /\ inv.pc = "loop" => inv.boxes = 0
                   /\ inv.pc = "returned" =>
                          /\ inv.boxes = 0
                          /\ Len(inv.points) = inv.num
                          /\ \A k \in 1 .. inv.num :
                                 OnXAxisAt(inv.points[k], b)

C12_Witness ==
    /\ inv.pc = "returned"
    /\ inv.bd = RInt(3)
    /\ inv.od = RInt(3)
    /\ inv.num = 3
    /\ inv.boxes = 0
    /\ inv.points[1] = [r |-> [n |-> 3, d |-> 2], theta |-> ZeroAngle]
    /\ inv.points[3] = [r |-> [n |-> 3, d |-> 2], theta |-> ZeroAngle]

\* C13: a sample radius below the base radius makes the geometry functions
\* fail fast: involutePoint does not return normally, so the sequence that
\* get_involutePoints builds and returns never holds a None entry.
C13_FailFast ==
    inv.pc \in {"loop", "returned"} =>
        \A k \in 1 .. Len(inv.points) :
            /\ inv.points[k] # None
            /\ ~RLt(Distance(inv.points[k]), RMul(Norm(1, 2), inv.bd))

----------------------------------------------------------------------------
(* Validation of the tooth count                                           *)

LaterChecks == {"pitch", "hole", "fillet"}

\* C14: a tooth-count text that is not all digits, or whose number is below
\* 4, is rejected: once the handler has judged it, areInputsValid is FALSE,
\* an error message is set, the handler has returned and no later check
\* (pitch, hole diameter, root fillet) has run or will run.
C14_TeethRejected ==
    LET t == val.num_teeth_sh
        notDigits == ~IsDigit(t)
        tooFew == IsDigit(t) /\ StrToInt(t) < 4
    IN  (val.pc # "idle" /\ (notDigits \/ tooFew)) =>
            /\ \A k \in 1 .. Len(val.checks) : val.checks[k] \notin LaterChecks
            /\ val.pc \in {"called", "digits", "min_teeth", "returned"}
            /\ val.pc = "returned" =>
                   /\ val.areInputsValid = FALSE
                   /\ notDigits =>
                          /\ val.errMessage = WholeNumberMessage
                          /\ val.checks = <<"digits">>
                   /\ tooFew =>
                          /\ val.errMessage = MinTeethMessage
                          /\ val.checks = <<"digits", "min_teeth">>

C14_Witness ==
    /\ val.pc = "returned"
    /\ val.num_teeth_sh = <<"0", "3">>
    /\ val.numTeeth = 3
    /\ val.areInputsValid = FALSE
    /\ val.errMessage = MinTeethMessage
    /\ val.moduleValid /\ val.holeValid
    /\ ~val.holeTooLarge /\ ~val.filletTooLarge

----------------------------------------------------------------------------
(* The tooth builder                                                       *)

\* p and q are mirror images about the x axis: (q.x, q.y) = (p.x, -p.y)
MirrorImages(p, q) == q.r = p.r /\ q.theta = ANeg(p.theta)

FlankIndexes == 1 .. involute_point_count

\* C15: flank B is built point by point as the mirror image about the x axis
\* of flank A after A's centering rotation (B[i] = (A[i].x, -A[i].y), the
\* same number of points); both flanks are then rotated by the same
\* placement angle, so with the angle taken off again they are still mirror
\* images, and for the placement angle 0 they are exact mirror images.
C15_MirroredFlanks ==
    LET placed == tooth.pc \in {"splines", "root", "returned", "raised"}
        turn == PiAngle(tooth.angle)
    IN  /\ tooth.pc = "place" =>
               /\ tooth.centred = rotate_points(
                      get_involutePoints(base_diameter(tooth.obj),
                          tooth.tip_diameter, involute_point_count),
                      tooth.rotate_angle)
               /\ tooth.a = tooth.centred
               /\ DOMAIN tooth.b = FlankIndexes
               /\ DOMAIN tooth.a = FlankIndexes
               /\ \A k \in FlankIndexes : MirrorImages(tooth.a[k], tooth.b[k])
        /\ placed =>
               /\ DOMAIN tooth.b = FlankIndexes
               /\ DOMAIN tooth.a = FlankIndexes
               /\ \A k \in FlankIndexes :
                      /\ tooth.a[k] =
                             Point(tooth.centred[k].r,
                                   AAdd(tooth.centred[k].theta, turn))
                      /\ MirrorImages(
                             Point(tooth.a[k].r, ASub(tooth.a[k].theta, turn)),
                             Point(tooth.b[k].r, ASub(tooth.b[k].theta, turn)))
                      /\ tooth.angle = RInt(0) =>
                             MirrorImages(tooth.a[k], tooth.b[k])

C15_Witness ==
    /\ tooth.pc = "returned"
    /\ tooth.angle = RInt(0)
    /\ tooth.obj.num_teeth_sh = 4
    /\ tooth.obj.pressure_angle = [n |-> 1, d |-> 9]
    /\ tooth.a[1].theta.pi = [n |-> -1, d |-> 8]
    /\ tooth.b[1].theta.pi = [n |-> 1, d |-> 8]
    /\ tooth.b[15].r = tooth.a[15].r
    /\ tooth.a[15].theta.inv # {}
    /\ tooth.b[15].theta = ANeg(tooth.a[15].theta)

----------------------------------------------------------------------------
(* The engrave loop: rotations seen by each cut, and the loop's length     *)

\* the successful calls of op issued before position k of the log
OkBefore(op, k) ==
    Cardinality({j \in 1 .. (k - 1) : calls[j].op = op /\ calls[j].ok})

\* C16: when the cut of step i is issued the MP body has received exactly i
\* rotations of -delta and the SH body exactly i rotations of
\* delta / gear_ratio; so the first cut precedes every rotation, and no cut
\* follows the rotation of the last step.
C16_CutSeesPriorRotations ==
    /\ pc = "engrave" =>
           /\ OkCount("rotate_mp") = i
           /\ OkCount("rotate_sh") = i
           /\ mpBody.rot.n * num_steps = -2 * i * mpBody.rot.d
           /\ shBody.rot.n * num_steps * abenics.gear_ratio.n
                  = 2 * i * shBody.rot.d * abenics.gear_ratio.d
    /\ \A k \in 1 .. Len(calls) :
           /\ calls[k].op = "cut" =>
                  /\ OkBefore("rotate_mp", k) = calls[k].step
                  /\ OkBefore("rotate_sh", k) = calls[k].step
           /\ calls[k].op \in {"rotate_sh", "rotate_mp"} =>
                  \E j \in 1 .. (k - 1) :
                      calls[j].op = "cut" /\ calls[j].step = 0
           /\ (calls[k].op = "rotate_mp" /\ calls[k].step = num_steps - 1) =>
                  \A j \in (k + 1) .. Len(calls) : calls[j].op # "cut"

C16_Witness ==
    /\ pc = "engrave"
    /\ i = 5
    /\ OkCount("cut") = 5
    /\ mpBody.rot = [n |-> -5, d |-> 18]
    /\ shBody.rot = [n |-> 5, d |-> 36]

\* the calls of op the loop issued, successful or not
IssuedCount(op) == Cardinality({k \in 1 .. Len(calls) : calls[k].op = op})

LoopOps == {"cut", "rotate_sh", "rotate_mp", "group"}

\* the timeline groups of single steps (the outer group has no step)
StepGroupCount ==
    Cardinality({k \in 1 .. Len(groups) : groups[k].step # NoStep})

\* C17: the engrave loop ends; when every operation succeeds it ends after
\* exactly num_steps iterations, having issued exactly num_steps cuts,
\* num_steps SH rotations, num_steps MP rotations and num_steps groups, and
\* nothing more is issued by it afterwards.
C17_LoopLength ==
    /\ i \in PyRange(num_steps)
    /\ \A op \in LoopOps : IssuedCount(op) <= num_steps
    /\ StepGroupCount <= num_steps
    /\ Len(LoopCalls) <= 4 * num_steps
    /\ pc \in LoopPcs => Len(LoopCalls) = 4 * i + (CASE pc = "engrave" -> 0
                                                     [] pc = "rotate_sh" -> 1
                                                     [] pc = "rotate_mp" -> 2
                                                     [] pc = "group" -> 3)
    /\ pc = "outer_group" => LoopCompleted
    /\ LoopCompleted =>
           /\ pc \notin LoopPcs
           /\ i = num_steps - 1
           /\ \A op \in LoopOps :
                  IssuedCount(op) = num_steps /\ OkCount(op) = num_steps
           /\ Len(LoopCalls) = 4 * num_steps
           /\ StepGroupCount = num_steps
           /\ Cardinality({k \in 1 .. Len(timeline) :
                  timeline[k] \in {Feature(kind, s) :
                      kind \in {"cut", "move_sh", "move_mp"},
                      s \in PyRange(num_steps)}}) = 3 * num_steps

C17_Witness ==
    /\ pc = "done"
    /\ exc = "none"
    /\ IssuedCount("cut") = num_steps
    /\ IssuedCount("rotate_sh") = num_steps
    /\ IssuedCount("rotate_mp") = num_steps
    /\ IssuedCount("group") = num_steps
    /\ StepGroupCount = num_steps

----------------------------------------------------------------------------
(* The dimensions handed to the tooth builder                              *)

\* C18: in one length unit (cm), root diameter = pitch diameter - 2*dedendum
\* with dedendum = 1.25*module, and tip diameter = pitch diameter + 2*module;
\* for module 1.0 mm and 40 teeth the root diameter is 3.75 cm (37.5 mm) and
\* the tip diameter 4.2 cm (42 mm).
C18_RootAndTipDiameters ==
    \A k \in 1 .. Len(toothCalls) :
        LET t == toothCalls[k]
            module_cm == RMul(args.module, Norm(1, 10))
            dedendum_cm == RMul(Norm(125, 100), module_cm)
        IN  /\ t.root_diameter =
                   RSub(abenics.sh_diameter, RMul(RInt(2), dedendum_cm))
            /\ t.tip_diameter =
                   RAdd(abenics.sh_diameter, RMul(RInt(2), module_cm))
            /\ (args.module = RInt(1) /\ args.num_teeth_sh = 40) =>
                   /\ t.root_diameter = [n |-> 15, d |-> 4]
                   /\ t.tip_diameter = [n |-> 21, d |-> 5]

IsLine(e) == e.op = "line"

IsTangent(e) == e.op = "tangent"

\* C19: draw_tooth closes the root in exactly one of two ways.  With the
\* base diameter below the root diameter: one line from the start of flank B
\* to the start of flank A and no tangent constraint.  Otherwise (equality
\* included): two relief lines, each from a root point to the start of its
\* flank, one closing line between the relief lines' start points, and one
\* tangent constraint per flank (spline A with line 1, spline B with line 2).
C19_RootClosedOneWay ==
    LET lines == SelectSeq(tooth.sketch, IsLine)
        tangents == SelectSeq(tooth.sketch, IsTangent)
        half_root == RMul(Norm(1, 2), tooth.root_diameter)
    IN  /\ tooth.pc \in {"called", "mirror", "place", "splines", "root"} =>
               lines = <<>> /\ tangents = <<>>
        /\ tooth.pc = "returned" =>
               IF RLt(base_diameter(tooth.obj), tooth.root_diameter)
               THEN /\ Len(lines) = 1
                    /\ lines[1].start = tooth.b[1]
                    /\ lines[1].end = tooth.a[1]
                    /\ tangents = <<>>
               ELSE /\ Len(lines) = 3
                    /\ lines[1].end = tooth.a[1]
                    /\ lines[1].start.theta = tooth.a[1].theta
                    /\ lines[1].start.ry = half_root
                    /\ lines[2].end = tooth.b[1]
                    /\ lines[2].start.theta = tooth.b[1].theta
                    /\ lines[2].start.ry = half_root
                    /\ lines[3].start = lines[1].start
                    /\ lines[3].end = lines[2].start
                    /\ tangents =
                           <<[op |-> "tangent", curve |-> "spline_a",
                              line |-> lines[1].name],
                             [op |-> "tangent", curve |-> "spline_b",
                              line |-> lines[2].name]>>
                    /\ tooth.sketch[1].name = "spline_a"
                    /\ tooth.sketch[1].points = tooth.a
                    /\ tooth.sketch[2].name = "spline_b"
                    /\ tooth.sketch[2].points = tooth.b

C19_Witness ==
    /\ tooth.pc = "returned"
    /\ tooth.root_diameter = base_diameter(tooth.obj)
    /\ tooth.obj.num_teeth_sh = 5
    /\ Len(SelectSeq(tooth.sketch, IsLine)) = 3
    /\ Len(SelectSeq(tooth.sketch, IsTangent)) = 2

\* the pitch point angle: the involute angle at the pitch circle, where the
\* ratio of base radius to distance is cos(pressure angle)
PitchPointTerm(obj) == {<<Cos(obj.pressure_angle), 1>>}

\* backlashAngle = (backlash / (pitchDiameter / 2)) * 0.25, in radians
ClaimedBacklashAngle(obj) ==
    RDiv(obj.backlash, RMul(RInt(2), obj.sh_diameter))

\* flank A has been centred by the angle r: its first point, on the base
\* circle at the angle 0 before, is now at the angle r
CentredBy(r) ==
    /\ tooth.rotate_angle = r
    /\ tooth.pc = "mirror" =>
           /\ tooth.a[1].theta = r
           /\ \A k \in 1 .. involute_point_count :
                  ASub(tooth.a[k].theta, r) =
                      InvoluteTheta(RMul(Norm(1, 2),
                                         base_diameter(tooth.obj)),
                                    tooth.a[k].r)

\* C20 (as stated): the centering rotation of flank A is
\* -(halfToothThickness + pitchPointAngle - backlashAngle) with
\* halfToothThickness = pi / toothCount and
\* backlashAngle = (backlash / (pitchDiameter/2)) * 0.25.
C20_CenteringByWholeThickness ==
    tooth.pc \notin {"idle", "called"} =>
        CentredBy(ANeg([pi |-> Norm(1, tooth.obj.num_teeth_sh),
                        rad |-> RNeg(ClaimedBacklashAngle(tooth.obj)),
                        inv |-> PitchPointTerm(tooth.obj)]))

\* C20 (amended): the centering rotation of flank A is
\* -(toothThicknessAngle/2 + pitchPointAngle - backlashAngle) with
\* toothThicknessAngle = pi / toothCount, that is half the tooth thickness
\* angle, pi / (2 * toothCount), and
\* backlashAngle = (backlash / (pitchDiameter/2)) * 0.25.
C20_CenteringByHalfThickness ==
    tooth.pc \notin {"idle", "called"} =>
        CentredBy(ANeg([pi |-> Norm(1, 2 * tooth.obj.num_teeth_sh),
                        rad |-> RNeg(ClaimedBacklashAngle(tooth.obj)),
                        inv |-> PitchPointTerm(tooth.obj)]))

C20_Witness ==
    /\ tooth.pc = "mirror"
    /\ tooth.obj.num_teeth_sh = 4
    /\ tooth.obj.module = RInt(1)
    /\ tooth.obj.pressure_angle = [n |-> 1, d |-> 9]
    /\ tooth.rotate_angle =
           [pi |-> [n |-> -1, d |-> 8],
            rad |-> [n |-> 1, d |-> 800],
            inv |-> {<<[n |-> 9397, d |-> 10000], -1>>}]
    /\ tooth.a[1].theta = tooth.rotate_angle

----------------------------------------------------------------------------
(* The rotation axes of the engrave loop                                   *)

\* the centre of the circles that draw_mp_sketch drew
DrawnPinionCentres ==
    {calls[k].arg.circles[c].center :
        k \in {j \in 1 .. Len(calls) : calls[j].op = "draw_mp_sketch"},
        c \in 1 .. 2}

\* C21: every SH rotation is about the z axis through the origin, every MP
\* rotation about the z axis through (pitch radius of SH + pitch radius of
\* MP, 0, 0); this is the point at which draw_mp_sketch centred the tip and
\* the hole circle, and the MP body's centre stays there in every step.
C21_RotationCentres ==
    LET mesh == XY(RDiv(RAdd(abenics.sh_diameter, abenics.d_pinion),
                        RInt(2)),
                   RInt(0))
    IN  /\ \A k \in 1 .. Len(calls) :
               /\ calls[k].op = "rotate_sh" =>
                      /\ calls[k].arg.body = "SH"
                      /\ calls[k].arg.axis = "z_up"
                      /\ calls[k].arg.origin = XY(RInt(0), RInt(0))
               /\ calls[k].op = "rotate_mp" =>
                      /\ calls[k].arg.body = "MP"
                      /\ calls[k].arg.axis = "z_up"
                      /\ calls[k].arg.origin = mesh
                      /\ DrawnPinionCentres = {calls[k].arg.origin}
        /\ mpBody.exists =>
               /\ DrawnPinionCentres = {mesh}
               /\ mpBody.centre = mesh
        /\ shBody.exists => shBody.centre = XY(RInt(0), RInt(0))

C21_Witness ==
    /\ pc = "outer_group"
    /\ OkCount("rotate_mp") = num_steps
    /\ OkCount("rotate_sh") = num_steps
    /\ mpBody.centre = [x |-> [n |-> 300, d |-> 1], y |-> [n |-> 0, d |-> 1]]
    /\ mpBody.rot = [n |-> -2, d |-> 1]

----------------------------------------------------------------------------
(* The timeline groups                                                     *)

StepFeatures(s) ==
    <<Feature("cut", s), Feature("move_sh", s), Feature("move_mp", s)>>

\* C22: the group created in step i spans from the cut of step i to the MP
\* rotation of step i and holds exactly the three features of step i, with
\* the groups of the earlier steps already in the timeline; the outer group,
\* when it is created, spans from the group of step 0 to the group of the
\* last step.
C22_GroupSpans ==
    /\ \A k \in 1 .. Len(groups) :
           LET g == groups[k]
           IN  IF g.step # NoStep
               THEN /\ g.step = k - 1
                    /\ g.members = StepFeatures(g.step)
                    /\ g.to = g.from + 2
                    /\ \E x \in 1 .. Len(timeline) :
                           /\ timeline[x] = Feature("group", g.step)
                           /\ SubSeq(timeline, x + 1, x + 3)
                                  = StepFeatures(g.step)
               ELSE /\ k = num_steps + 1
                    /\ g.members[1] = Feature("group", 0)
                    /\ g.members[Len(g.members)]
                           = Feature("group", num_steps - 1)
    /\ \A k \in 1 .. Len(calls) :
           /\ (calls[k].op = "group" /\ calls[k].ok) =>
                  /\ calls[k].arg = [from |-> groups[calls[k].step + 1].from,
                                     to |-> groups[calls[k].step + 1].to]
           /\ calls[k].op = "outer_group" =>
                  /\ calls[k].arg.first_group = 0
                  /\ calls[k].arg.last_group = num_steps - 1

C22_Witness ==
    /\ outerGroup = "ok"
    /\ Len(groups) = num_steps + 1
    /\ groups[2].from = 10
    /\ groups[2].to = 12
    /\ groups[2].members = StepFeatures(1)
    /\ groups[num_steps + 1].step = NoStep
    /\ groups[num_steps + 1].members[1] = Feature("group", 0)

----------------------------------------------------------------------------
(* The axis of revolution                                                  *)

\* the diameter of the root fan at an axis angle: from the rotated arc start
\* (0.5*root_dia, 0) to the rotated arc end (-0.5*root_dia, 0)
FanDiameter(obj, axis_angle) ==
    [from |-> Point(RMul(Norm(1, 2), root_dia(obj)), PiAngle(axis_angle)),
     to |-> Point(RNeg(RMul(Norm(1, 2), root_dia(obj))),
                  PiAngle(axis_angle))]

FanDrawn == gpc \in {"teeth", "returned", "raised"} /\ "l" \in DOMAIN fan

\* the draw_gear call that a revolve call follows
DrawBefore(k) ==
    calls[CHOOSE j \in 1 .. k :
              /\ calls[j].op = "draw_gear"
              /\ \A m \in (j + 1) .. k : calls[m].op # "draw_gear"]

\* C23: the line draw_gear returns is the line that closes the root fan along
\* its diameter, from the rotated arc start to the rotated arc end; each
\* revolve takes as its axis the line returned by the draw_gear call on the
\* same sketch, takes every profile of that sketch and sweeps 2*pi; the only
\* extrusion is that of the pinion sketch.
C23_AxisOfRevolution ==
    /\ FanDrawn =>
           /\ fan.l = FanDiameter(abenics, axis)
           /\ fan.arc.start = fan.l.from
           /\ fan.arc.sweep = RInt(1)
    /\ pc \in {"sh1_revolve", "sh2_revolve"} =>
           /\ ret.sk = fan.sketch
           /\ ret.ax_line = fan.l
    /\ \A k \in 1 .. Len(calls) :
           /\ (calls[k].op = "revolve" /\ calls[k].ok) =>
                  /\ calls[k].arg.axis
                         = FanDiameter(abenics, DrawBefore(k).arg.axis_angle)
                  /\ calls[k].arg.profiles
                         = [sketch |-> DrawBefore(k).arg.sketch,
                            which |-> "all"]
                  /\ calls[k].arg.angle = RInt(2)
           /\ (calls[k].op = "extrude" /\ calls[k].ok) =>
                  calls[k].arg.profile.sketch \notin {"baseSketch", "i_sketch"}

C23_Witness ==
    /\ pc = "describe"
    /\ \E k \in 1 .. Len(calls) :
           /\ calls[k].op = "revolve"
           /\ calls[k].arg.profiles.sketch = "i_sketch"
           /\ calls[k].arg.axis.from
                  = Point(RMul(Norm(1, 2), root_dia(abenics)),
                          PiAngle(Norm(1, 2)))
           /\ calls[k].arg.axis.to.r = RNeg(calls[k].arg.axis.from.r)
    /\ \E k \in 1 .. Len(calls) :
           /\ calls[k].op = "revolve"
           /\ calls[k].arg.profiles.sketch = "baseSketch"
           /\ calls[k].arg.axis.from.theta = ZeroAngle

----------------------------------------------------------------------------
(* The dialog and the geometry                                             *)

\* the object the constructor's defaults give
Defaults == NewABENICS(DefaultArgs)

\* the input of a geometry call as the defaults alone decide it; the
\* extrusion distance is the one value taken from the dialog
FromDefaults(k) ==
    LET c == calls[k]
    IN  CASE c.op = "draw_gear" ->
                 c.arg.axis_angle = DrawAxis(
                     IF c.arg.sketch = "baseSketch" THEN "sh1_draw"
                                                    ELSE "sh2_draw")
          [] c.op = "revolve" ->
                 /\ c.arg.axis
                        = FanDiameter(Defaults, DrawBefore(k).arg.axis_angle)
                 /\ c.arg.angle = RInt(2)
          [] c.op = "draw_mp_sketch" ->
                 c.arg = [circles |-> MpSketchCircles(Defaults)]
          [] c.op = "extrude" ->
                 /\ c.arg.distance = dialog.thickness
                 /\ [c.arg EXCEPT !.distance = RInt(0)]
                        = [profile |-> [sketch |-> "mp_sketch",
                                        which |-> "two_loops"],
                           operation |-> "NewBody", symmetric |-> TRUE,
                           distance |-> RInt(0)]
          [] c.op = "cut" -> c.arg = CombineInput
          [] c.op = "rotate_sh" -> c.arg = ShMove(Defaults, delta_angle)
          [] c.op = "rotate_mp" -> c.arg = MpMove(Defaults, delta_angle)
          [] OTHER -> TRUE

\* C24: the gear parameters do not depend on the dialog: whatever module,
\* pressure angle, tooth count, gear ratio, backlash, hole diameter or root
\* fillet radius the dialog holds, the object is built with the defaults
\* (module 1.0, 20 degrees, 40 teeth, ratio 2, hole 0.4, backlash 0.1) and
\* every geometry operation gets the input the defaults decide; the
\* thickness alone reaches the geometry, as the pinion's extrusion distance.
C24_DialogIgnored ==
    /\ abenics \in {NoObject, Defaults}
    /\ abenics # NoObject =>
           /\ abenics.module = RInt(1)
           /\ abenics.pressure_angle = Norm(20, 180)
           /\ abenics.num_teeth_sh = 40
           /\ abenics.gear_ratio = RInt(2)
           /\ abenics.d_hole_pinion = Norm(4, 10)
           /\ abenics.backlash = Norm(1, 10)
    /\ \A k \in 1 .. Len(calls) : calls[k].ok => FromDefaults(k)
    /\ \A k \in 1 .. Len(toothCalls) :
           toothCalls[k] = draw_tooth(Defaults, root_dia(Defaults),
                                      tip_diameter(Defaults),
                                      ToothAngle(Defaults, k - 1, axis))

C24_Witness ==
    /\ dialog.module = RInt(2)
    /\ dialog # DefaultDialog
    /\ pc = "describe"
    /\ abenics.module = RInt(1)
    /\ \E k \in 1 .. Len(calls) :
           /\ calls[k].op = "extrude"
           /\ calls[k].arg.distance = RInt(2)
    /\ \E k \in 1 .. Len(calls) :
           /\ calls[k].op = "rotate_mp"
           /\ calls[k].step = num_steps - 1
           /\ calls[k].arg.origin = XY(RInt(300), RInt(0))

----------------------------------------------------------------------------
(* The second revolve of the SH gear                                       *)

\* the revolve calls that follow a successful revolve: the intersect of
\* lines 779-782
SecondRevolves ==
    {k \in 1 .. Len(calls) :
        calls[k].op = "revolve" /\ OkBefore("revolve", k) >= 1}

\* C25: the second revolve of the SH gear (intersect, axis angle pi/2) is
\* issued only after all the steps of the loop and the attempt to create the
\* outer group; every cut uses the SH body of the first revolve alone; the
\* intersect is applied to the SH body as the rotations of the loop left
\* it, turned by 2*pi / gear_ratio in all.
C25_IntersectAfterLoop ==
    /\ \A k \in SecondRevolves :
           /\ OkBefore("cut", k) = num_steps
           /\ OkBefore("rotate_sh", k) = num_steps
           /\ OkBefore("rotate_mp", k) = num_steps
           /\ OkBefore("group", k) = num_steps
           /\ \E j \in 1 .. (k - 1) : calls[j].op = "outer_group"
           /\ DrawBefore(k).arg.axis_angle = Norm(1, 2)
           /\ calls[k].ok =>
                  /\ calls[k].arg.operation = "Intersect"
                  /\ calls[k].arg.participants = <<"SH">>
    /\ \A k \in 1 .. Len(calls) :
           calls[k].op = "cut" =>
               /\ OkBefore("revolve", k) = 1
               /\ \A j \in 1 .. (k - 1) : calls[j].op = "revolve" => calls[j].ok
    /\ pc \in LoopPcs /\ shBody.exists => shBody.shape = <<"revolve">>
    /\ pc = "sh2_revolve" =>
           /\ shBody.shape = <<"revolve">>
           /\ shBody.rot = RDiv(RInt(2), abenics.gear_ratio)
    /\ pc = "describe" =>
           /\ shBody.shape = <<"revolve", "intersect">>
           /\ shBody.rot = RDiv(RInt(2), abenics.gear_ratio)

C25_Witness ==
    /\ pc = "describe"
    /\ SecondRevolves # {}
    /\ \A k \in SecondRevolves : calls[k].ok
    /\ shBody.shape = <<"revolve", "intersect">>
    /\ shBody.rot = RInt(1)
    /\ OkCount("cut") = num_steps

----------------------------------------------------------------------------
(* The attributes of the design                                            *)

\* the attributes GearCommandCreatedHandler.notify reads back
ReadNames ==
    {"standard", "pressureAngle", "pressureAngleCustom", "module",
     "backlash", "rootFilletRad", "thickness", "holeDiam", "num_teeth_sh",
     "gear_ratio"}

\* the value of the input of the same name
InputValue(name) ==
    IF name = "standard" THEN standard ELSE dialog[name]

Saved == \E k \in 1 .. Len(calls) : calls[k].op = "save_attribs" /\ calls[k].ok

\* C26: after SaveValueAsAttributes every attribute the created handler
\* reads back (standard, pressureAngle, pressureAngleCustom, module,
\* backlash, rootFilletRad, thickness, holeDiam, num_teeth_sh, gear_ratio)
\* has been written, and the value read back is the value of the input of
\* the same name.
C26_AttributeRoundTrip ==
    Saved =>
        \A name \in ReadNames :
            /\ HasAttr(attribs, name)
            /\ ReadBack(attribs)[name] = InputValue(name)

\* what the code does establish: the round trip of the eight other names
C26_RoundTripOfTheOthers ==
    Saved =>
        \A name \in ReadNames \ {"backlash", "num_teeth_sh"} :
            /\ HasAttr(attribs, name)
            /\ ReadBack(attribs)[name] = InputValue(name)

\* the two attributes that break the round trip: 'backlash' holds the gear
\* ratio, 'num_teeth_sh' is never written
C26_Divergence ==
    Saved =>
        /\ ~HasAttr(attribs, "num_teeth_sh")
        /\ ReadBack(attribs).backlash = dialog.gear_ratio
        /\ ReadBack(attribs).backlash # dialog.backlash

----------------------------------------------------------------------------
(* The tooth centres and the root fan                                      *)

\* the placement angle of the k-th tooth relative to the axis angle
Relative(k) == RSub(toothCalls[k].angle, axis)

HalfPitch == Norm(1, args.num_teeth_sh)

\* C27: for every tooth count N >= 4, odd or even, every placement angle
\* draw_gear passes to draw_tooth, taken relative to the axis angle, lies
\* strictly between 0 and pi; consecutive placement angles differ by exactly
\* one pitch angle 2*pi/N; the first centre is half a pitch from the
\* diameter line, the last one half a pitch (even N) or at least half a
\* pitch (odd N).
C27_CentresInsideFan ==
    /\ args.num_teeth_sh >= 4
    /\ \A k \in 1 .. Len(toothCalls) :
           /\ RLt(RInt(0), Relative(k))
           /\ RLt(Relative(k), RInt(1))
           /\ k > 1 => RSub(Relative(k), Relative(k - 1))
                           = Norm(2, args.num_teeth_sh)
    /\ toothCalls # <<>> => Relative(1) = HalfPitch
    /\ gpc = "returned" =>
           LET last == RSub(RInt(1), Relative(Len(toothCalls)))
           IN  IF args.num_teeth_sh % 2 = 0
               THEN last = HalfPitch
               ELSE ~RLt(last, HalfPitch)

C27_Witness ==
    /\ gpc = "returned"
    /\ args.num_teeth_sh = 9
    /\ axis = Norm(1, 2)
    /\ Len(toothCalls) = 4
    /\ Relative(1) = Norm(1, 9)
    /\ Relative(4) = Norm(7, 9)

----------------------------------------------------------------------------
(* The two handlers of the dialog under either standard                    *)

DialogInit == Init \/ ValidateInit

DialogNext == Next \/ ValidateNext

SpecDialog == DialogInit /\ [][DialogNext]_vars

\* the execute handler is past its read of the pitch input
PastRead == pc \notin {"read_standard", "validate"}

DesignUntouched ==
    /\ attribs = {}
    /\ timeline = <<>>
    /\ groups = <<>>
    /\ calls = <<>>
    /\ ~shBody.exists
    /\ ~mpBody.exists
    /\ abenics = NoObject
    /\ descs = [sh |-> "", mp |-> ""]

\* what the execute handler does under either standard
ExecutionByStandard ==
    /\ "_diaPitch" \notin CreatedInputs
    /\ (standard = "English" /\ PastRead) =>
           /\ exc = "read_standard"
           /\ pc \in {"except", "done"}
           /\ DesignUntouched
    /\ standard = "Metric" => exc # "read_standard"

ToothCountPasses ==
    IsDigit(val.num_teeth_sh) /\ StrToInt(val.num_teeth_sh) >= 4

\* C28 as stated: with 'English' the diametral-pitch input was never
\* created, validation always marks the inputs invalid without setting an
\* error message, and an execution fails on reading the input before any
\* attribute is saved and before any component, sketch or body is created;
\* with 'Metric' the read succeeds.
C28_EnglishAlwaysSilent ==
    /\ ExecutionByStandard
    /\ (standard = "English" /\ val.pc = "returned") =>
           /\ val.areInputsValid = FALSE
           /\ val.errMessage = ""

\* C28, amended: with 'English' validation always marks the inputs invalid;
\* it sets no error message when the tooth count passes its two checks and
\* the pitch check is what rejects, and the tooth-count message otherwise;
\* the execution part is as stated.
C28_EnglishSilentPastToothCount ==
    /\ ExecutionByStandard
    /\ (standard = "English" /\ val.pc = "returned") =>
           /\ val.areInputsValid = FALSE
           /\ IF ToothCountPasses
                THEN /\ val.errMessage = ""
                     /\ val.checks = <<"digits", "min_teeth", "pitch">>
                ELSE val.errMessage \in {WholeNumberMessage, MinTeethMessage}

C28_Witness ==
    /\ standard = "English"
    /\ val.pc = "returned"
    /\ val.num_teeth_sh = <<"4", "0">>
    /\ val.moduleValid /\ val.holeValid
    /\ ~val.holeTooLarge /\ ~val.filletTooLarge
    /\ val.areInputsValid = FALSE
    /\ val.errMessage = ""

\* the other cases of C28: an 'English' execution that failed at the read,
\* a 'Metric' execution inside the engrave loop
C28_EnglishExecutionFailed ==
    standard = "English" /\ pc = "done" /\ exc = "read_standard"
        /\ DesignUntouched

C28_MetricReachesLoop ==
    standard = "Metric" /\ pc = "engrave" /\ i = num_steps - 1

====
